---- MODULE Spec2Model ----
(***************************************************************************)
(* Session registry, conversation orchestrator and stream fan-in of the    *)
(* agent package.  Two implementations of the package exist in the         *)
(* repository: the ADK runner agent (internal/agent/agent.go) and the      *)
(* ReAct agent (unnamed/part_002).  The variable impl selects which one a  *)
(* behaviour runs; it never changes after Init.                            *)
(***************************************************************************)
EXTENDS Integers, Sequences, FiniteSets, TLC

\* ---------------------------------------------------------------- bounds
MaxCalls == 3          \* API calls started in one behaviour
MaxEvents == 2         \* message events one executor run emits

\* ------------------------------------------------------------ small sets
Procs == {"p1", "p2"}              \* request handler threads
Ids == {"s1", "s2"}                \* session identifiers
Texts == {"hi"}                    \* user message texts
Configs ==                         \* Agent implementation and its Config
    { [impl |-> "adk", MaxHistory |-> 0, SystemPrompt |-> ""],
      [impl |-> "react", MaxHistory |-> 0, SystemPrompt |-> ""],
      [impl |-> "react", MaxHistory |-> 1, SystemPrompt |-> "sys"] }
Ops == {"Chat", "ChatStream", "GetOrCreateSession", "ClearSession",
        "GetSessionHistory", "ListSessions", "AppendAssistantMessage"}

NoProc == "none"
NoMsg == [role |-> "nil", content |-> "", call |-> NoProc]

VARIABLES
    impl,          \* which Agent implementation runs
    maxHistory,    \* Config.MaxHistory
    systemPrompt,  \* Config.SystemPrompt
    sessions,      \* Agent.sessions: id -> index into objs (0 = no entry)
    objs,          \* every Session object ever allocated: [ID, Messages]
    sessionMu,     \* Agent.sessionMu: [w: holder of Lock, r: holders of RLock]
    mu,            \* Session.mu of each object, same shape, parallel to objs
    store,         \* memory.Store: id -> [ok: has data, msgs: stored list]
    pc,            \* position of each handler thread in its call
    op,            \* the call a thread is in / has last returned from
    sid,           \* sessionID argument
    text,          \* userMessage argument
    arg,           \* message argument of AppendAssistantMessage
    sess,          \* local variable session (index into objs, 0 = nil)
    response,      \* local variable response of Chat
    evCount,       \* events pulled so far from the executor's iterator
    result,        \* what the call returned
    calls,         \* number of calls started
    pre,           \* Session.Messages when the call took Session.mu
    execInput,     \* message list the call handed to the executor
    execErr,       \* the executor reported an error during the call
    wrote,         \* lists the call passed to Store.Write, in order
    reads,         \* per id: Store.Read calls since the last ClearSession
    got,           \* per id: objects GetOrCreateSession returned since then
    overlap,       \* per thread: threads whose current call overlaps its call
    readErr        \* per id: the Read of the last creation returned an error

\* the stream fan-in of one ChatStream call (agent.go 243-293) and its
\* consumer
VARIABLES
    cpc,           \* position of the ChatStream caller in lines 243-293
    ppc,           \* position of the producer goroutine
    wg,            \* counter of the sync.WaitGroup
    pulled,        \* events obtained from events.Next() so far
    subPulled,     \* results obtained from the current MessageStream.Recv()
    back,          \* loop the producer returns to after Send
    exhausted,     \* events.Next() has reported the end of the source
    nFrag,         \* fragments (messages and sub-chunks) the source gave
    pending,       \* fragment the producer is about to Send (0 = none)
    queue,         \* items buffered in the pipe
    closeCount,    \* calls of streamWriter.Close()
    closedRecv,    \* the consumer has closed the StreamReader
    received,      \* items the consumer got from Recv, in order
    sawEOF,        \* the consumer's Recv has returned io.EOF
    errSeen,       \* the source has yielded an event with Err != nil
    afterErr       \* fragments the source gave after such an event

\* the history compactor (unnamed/part_005): one ProcessMessages call
VARIABLES
    messages,      \* argument messages
    msgsToken,     \* list the TokenCounter returns
    counterFails,  \* the TokenCounter returns an error
    summarizerFails, \* the Summarizer returns an error
    maxBefore,     \* Middleware.maxBefore
    maxRecent,     \* Middleware.maxRecent
    sumPc,         \* "call" before ProcessMessages runs, "done" after
    returned,      \* what ProcessMessages returned: [msgs, err]
    invocations,   \* calls of m.summarizer.Invoke
    olderText,     \* the older_messages text of the last Invoke
    counter,       \* Middleware.counter: the results it can return
    splits,        \* calls of m.splitMessages
    classified,    \* what splitMessages returned
    walk           \* recentBlocks, olderBlocks, recentTokens after the walk

VARIABLES
    storeKind,     \* which Store implementation: "inmem" or "redis"
    data,          \* InMemoryStore.data, or the values Redis holds per key
    lastWrite,     \* per id, the list of the last Write that returned nil
    readRes        \* what the last Read returned: [id, msgs, err]

VARIABLES
    stateMessages, \* state.Messages of the ChatModelAgentState
    origMessages,  \* state.Messages when AfterChatModel was entered
    fmtPc          \* "ready" before AfterChatModel runs, "done" after

fanVars == <<cpc, ppc, wg, pulled, subPulled, back, exhausted, nFrag,
             pending, queue, closeCount, closedRecv, received, sawEOF,
             errSeen, afterErr>>
sumVars == <<messages, msgsToken, counterFails, summarizerFails, maxBefore,
             maxRecent, sumPc, returned, invocations, olderText, counter,
             splits, classified, walk>>
storeVars == <<storeKind, data, lastWrite, readRes>>
fmtVars == <<stateMessages, origMessages, fmtPc>>
otherVars == <<fanVars, sumVars, storeVars, fmtVars>>
cfgVars == <<impl, maxHistory, systemPrompt>>
regVars == <<sessions, objs, sessionMu, mu, store>>
locVars == <<pc, op, sid, text, arg, sess, response, evCount, result>>
histVars == <<calls, pre, execInput, execErr, wrote, reads, got,
              overlap, readErr>>
agentVars == <<cfgVars, regVars, locVars, histVars>>
vars == <<agentVars, fanVars, sumVars, storeVars, fmtVars>>

\* --------------------------------------------------------------- values
UserMessage(t, c) == [role |-> "user", content |-> t, call |-> c]
AssistantMessage(t, c) == [role |-> "assistant", content |-> t, call |-> c]
SystemMessage(t) == [role |-> "system", content |-> t, call |-> NoProc]

\* the k-th message an executor run produces
Reply(k, c) == AssistantMessage(IF k = 1 THEN "r1" ELSE "r2", c)

Free == [w |-> NoProc, r |-> {}]
CanLockNoExclusion(m) == TRUE
CanLock(m) == m.w = NoProc /\ m.r = {}
CanRLock(m) == m.w = NoProc

NoResult == [err |-> FALSE, msg |-> NoMsg, list |-> <<>>, ids |-> {},
             found |-> FALSE, handle |-> FALSE, backing |-> 0]
Ok(m) == [NoResult EXCEPT !.msg = m]
Failed == [NoResult EXCEPT !.err = TRUE]

\* ----------------------------------------------------------------- Init
\* the fan-in before line 243 runs: no source, no pipe, no goroutine
FanInit ==
    /\ cpc = "query" /\ ppc = "none" /\ wg = 0
    /\ pulled = 0 /\ subPulled = 0 /\ back = "next" /\ exhausted = FALSE
    /\ nFrag = 0 /\ pending = 0 /\ queue = <<>> /\ closeCount = 0
    /\ closedRecv = FALSE /\ received = <<>> /\ sawEOF = FALSE
    /\ errSeen = FALSE /\ afterErr = {}

NoReturn == [msgs |-> <<>>, err |-> FALSE]

EmptyBlock == [msgs |-> <<>>, tokens |-> 0]

\* the zero values of splitMessages' results and of the walk's variables
NoBlocks == [systemBlock |-> EmptyBlock, userBlock |-> EmptyBlock,
             summaryBlock |-> EmptyBlock, toolBlocks |-> <<>>]

NoWalk == [recentBlocks |-> <<>>, olderBlocks |-> <<>>, recentTokens |-> 0]

\* ids without a stored value, and a Read that has not happened
NoValue == [has |-> FALSE, val |-> <<>>]

NoRead == [id |-> "", msgs |-> <<>>, err |-> FALSE]

\* no Store is exercised
StoreIdle ==
    /\ storeKind = "none"
    /\ data = <<>> /\ lastWrite = <<>>
    /\ readRes = NoRead

\* the AfterChatModel middleware is not exercised
FormatIdle ==
    /\ stateMessages = <<>> /\ origMessages = <<>>
    /\ fmtPc = "done"

\* no ProcessMessages call is made
SumIdle ==
    /\ messages = <<>> /\ msgsToken = <<>>
    /\ counterFails = FALSE /\ summarizerFails = FALSE
    /\ maxBefore = 0 /\ maxRecent = 0
    /\ sumPc = "done" /\ returned = NoReturn
    /\ invocations = 0 /\ olderText = <<>>
    /\ counter = {} /\ splits = 0 /\ classified = NoBlocks /\ walk = NoWalk

\* the Agent after NewAgent: no session, no call in progress
AgentIdle ==
    /\ sessions = [i \in Ids |-> 0]
    /\ objs = <<>>
    /\ sessionMu = Free
    /\ mu = <<>>
    /\ store = [i \in Ids |-> [ok |-> FALSE, msgs |-> <<>>]]
    /\ pc = [p \in Procs |-> "idle"]
    /\ op = [p \in Procs |-> "none"]
    /\ sid = [p \in Procs |-> "s1"]
    /\ text = [p \in Procs |-> "hi"]
    /\ arg = [p \in Procs |-> NoMsg]
    /\ sess = [p \in Procs |-> 0]
    /\ response = [p \in Procs |-> NoMsg]
    /\ evCount = [p \in Procs |-> 0]
    /\ result = [p \in Procs |-> NoResult]
    /\ calls = 0
    /\ pre = [p \in Procs |-> <<>>]
    /\ execInput = [p \in Procs |-> <<>>]
    /\ execErr = [p \in Procs |-> FALSE]
    /\ wrote = [p \in Procs |-> <<>>]
    /\ reads = [i \in Ids |-> 0]
    /\ got = [i \in Ids |-> {}]
    /\ overlap = [p \in Procs |-> {}]
    /\ readErr = [i \in Ids |-> FALSE]

Init ==
    /\ \E c \in Configs : /\ impl = c.impl
                          /\ maxHistory = c.MaxHistory
                          /\ systemPrompt = c.SystemPrompt
    /\ AgentIdle
    /\ FanInit
    /\ SumIdle
    /\ StoreIdle
    /\ FormatIdle

\* ------------------------------------- a thread enters and leaves a call
InFlight(q) == pc[q] \notin {"idle", "ret"}

\* a free handler thread p (one that never ran a call, or has returned from
\* its last one) starts call o on session i; its locals start afresh.  The
\* first step of the call is taken by the action that uses Begin.  Threads
\* and ids are interchangeable, so the first call of a behaviour is taken
\* to be made by p1 on s1.
CallStarts(p, i) ==
    /\ ~InFlight(p)
    /\ calls < MaxCalls
    /\ (calls = 0 => p = "p1" /\ i = "s1")
    /\ calls' = calls + 1

Begin(p, o, i) ==
    /\ CallStarts(p, i)
    /\ op' = [op EXCEPT ![p] = o]
    /\ sid' = [sid EXCEPT ![p] = i]
    /\ \E t \in Texts : text' = [text EXCEPT ![p] = t]
    /\ pre' = [pre EXCEPT ![p] = <<>>]
    /\ execErr' = [execErr EXCEPT ![p] = FALSE]
    /\ wrote' = [wrote EXCEPT ![p] = <<>>]
    /\ overlap' = [q \in Procs |->
                     IF q = p THEN {r \in Procs : InFlight(r)}
                     ELSE IF InFlight(q) THEN overlap[q] \cup {p}
                     ELSE overlap[q] \ {p}]

\* the call of thread p returns: its locals and bookkeeping are dropped,
\* what it returned stays in result
Leave(p) ==
    /\ pc' = [pc EXCEPT ![p] = "ret"]
    /\ arg' = [arg EXCEPT ![p] = NoMsg]
    /\ sess' = [sess EXCEPT ![p] = 0]
    /\ response' = [response EXCEPT ![p] = NoMsg]
    /\ evCount' = [evCount EXCEPT ![p] = 0]
    /\ execInput' = [execInput EXCEPT ![p] = <<>>]

\* a call of thread p that hands nothing back to its caller returns: the
\* thread is as it was before the call
Reset(p) ==
    /\ pc' = [pc EXCEPT ![p] = "idle"]
    /\ op' = [op EXCEPT ![p] = "none"]
    /\ sid' = [sid EXCEPT ![p] = "s1"]
    /\ text' = [text EXCEPT ![p] = "hi"]
    /\ arg' = [arg EXCEPT ![p] = NoMsg]
    /\ sess' = [sess EXCEPT ![p] = 0]
    /\ response' = [response EXCEPT ![p] = NoMsg]
    /\ evCount' = [evCount EXCEPT ![p] = 0]
    /\ result' = [result EXCEPT ![p] = NoResult]
    /\ pre' = [pre EXCEPT ![p] = <<>>]
    /\ execInput' = [execInput EXCEPT ![p] = <<>>]
    /\ execErr' = [execErr EXCEPT ![p] = FALSE]
    /\ wrote' = [wrote EXCEPT ![p] = <<>>]
    /\ overlap' = [q \in Procs |-> IF q = p THEN {} ELSE overlap[q] \ {p}]

\* ------------------------------------------------------ Session Registry
StoreReadDespiteError(i, rok) == store[i].msgs
\* memoryStore.Read: the stored list, or nil on a miss or on an error
StoreRead(i, rok) ==
    IF rok /\ store[i].ok THEN store[i].msgs ELSE <<>>

\* outcomes of one Read / Write: success, or a failure of the backend (a
\* failure is listed only where its effect differs from a success)
ReadOutcomes(i) == IF store[i].ok /\ store[i].msgs # <<>>
                   THEN BOOLEAN ELSE {TRUE}
WriteOutcomes(i, msgs) == IF store[i] = [ok |-> TRUE, msgs |-> msgs]
                          THEN {TRUE} ELSE BOOLEAN

AfterGetOrCreate(o) ==
    IF o = "Chat" THEN "chat_lock" ELSE "stream_lock"

LookupAlwaysMiss(i) == 0
\* the entry GetOrCreateSession finds in a.sessions (0 = none)
Lookup(i) == sessions[i]

\* GetOrCreateSession, called directly or as the first statement of Chat
\* and ChatStream: sessionMu.Lock(), the body, the deferred Unlock
GetOrCreateSession(p) ==
    \E o \in {"Chat", "ChatStream", "GetOrCreateSession"}, i \in Ids :
    /\ CanLock(sessionMu)
    /\ IF Lookup(i) # 0
       THEN /\ got' = [got EXCEPT ![i] = @ \cup {Lookup(i)}]
            /\ UNCHANGED <<sessions, objs, mu, reads, readErr>>
       ELSE \E rok \in ReadOutcomes(i) :
            /\ readErr' = [readErr EXCEPT ![i] = ~rok]
            /\ objs' = Append(objs, [ID |-> i, Messages |-> StoreRead(i, rok)])
            /\ mu' = Append(mu, Free)
            /\ sessions' = [sessions EXCEPT ![i] = Len(objs) + 1]
            /\ reads' = [reads EXCEPT ![i] = @ + 1]
            /\ got' = [got EXCEPT ![i] = @ \cup {Len(objs) + 1}]
    /\ IF o = "GetOrCreateSession"
       THEN CallStarts(p, i) /\ Reset(p)
       ELSE /\ Begin(p, o, i)
            /\ result' = [result EXCEPT ![p] = NoResult]
            /\ pc' = [pc EXCEPT ![p] = AfterGetOrCreate(o)]
            /\ sess' = [sess EXCEPT ![p] = sessions'[i]]
            /\ UNCHANGED <<arg, response, evCount, execInput>>
    /\ UNCHANGED <<otherVars, cfgVars, sessionMu, store>>

ClearSessionDropsAll(p) ==
    \E i \in Ids :
    /\ CallStarts(p, i)
    /\ CanLock(sessionMu)
    /\ sessions' = [j \in Ids |-> 0]
    /\ reads' = [j \in Ids |-> 0]
    /\ got' = [j \in Ids |-> {}]
    /\ Reset(p)
    /\ UNCHANGED <<otherVars, readErr, cfgVars, objs, sessionMu, mu, store>>
\* ClearSession: Lock, delete(a.sessions, sessionID), Unlock
ClearSession(p) ==
    \E i \in Ids :
    /\ CallStarts(p, i)
    /\ CanLock(sessionMu)
    /\ sessions' = [sessions EXCEPT ![i] = 0]
    /\ reads' = [reads EXCEPT ![i] = 0]
    /\ got' = [got EXCEPT ![i] = {}]
    /\ Reset(p)
    /\ UNCHANGED <<otherVars, readErr, cfgVars, objs, sessionMu, mu, store>>

\* ListSessions: RLock, snapshot of the keys, RUnlock
ListSessions(p) ==
    /\ Begin(p, "ListSessions", "s1")
    /\ CanRLock(sessionMu)
    /\ result' = [result EXCEPT ![p] =
                    [NoResult EXCEPT !.ids = {i \in Ids : sessions[i] # 0}]]
    /\ Leave(p)
    /\ UNCHANGED <<otherVars, readErr, cfgVars, regVars, reads, got>>

\* GetSessionHistory up to session.mu.RLock(): sessionMu.RLock(), lookup,
\* return (nil, false) for an unknown id
GetSessionHistoryLookup(p) ==
    \E i \in Ids :
    /\ Begin(p, "GetSessionHistory", i)
    /\ CanRLock(sessionMu)
    /\ IF sessions[i] = 0
       THEN /\ Leave(p)
            /\ UNCHANGED sessionMu
       ELSE /\ sessionMu' = [sessionMu EXCEPT !.r = @ \cup {p}]
            /\ sess' = [sess EXCEPT ![p] = sessions[i]]
            /\ pc' = [pc EXCEPT ![p] = "gsh_copy"]
            /\ UNCHANGED <<arg, response, evCount, execInput>>
    /\ result' = [result EXCEPT ![p] = NoResult]
    /\ UNCHANGED <<otherVars, readErr, cfgVars, sessions, objs, mu, store, reads, got>>

CopyBackingShared(o) == o
\* result := make([]*schema.Message, len(session.Messages)): the array
\* behind the returned list is a new one, that of no Session object (0)
CopyBacking(o) == 0

\* GetSessionHistory from session.mu.RLock(): copy, both deferred RUnlocks
GetSessionHistoryCopy(p) ==
    /\ pc[p] = "gsh_copy"
    /\ CanRLock(mu[sess[p]])
    /\ result' = [result EXCEPT ![p] =
                    [NoResult EXCEPT !.list = objs[sess[p]].Messages,
                                     !.found = TRUE,
                                     !.backing = CopyBacking(sess[p])]]
    /\ sessionMu' = [sessionMu EXCEPT !.r = @ \ {p}]
    /\ Leave(p)
    /\ UNCHANGED <<otherVars, readErr, cfgVars, sessions, objs, mu, store, op, sid, text,
                   calls, pre, execErr, wrote, reads, got, overlap>>

\* AppendAssistantMessage up to session.mu.Lock(): RLock, lookup, RUnlock,
\* return when the id is unknown
AppendFound(p, i, m) ==
    /\ sess' = [sess EXCEPT ![p] = sessions[i]]
    /\ arg' = [arg EXCEPT ![p] = m]
    /\ pc' = [pc EXCEPT ![p] = "aam_lock"]
    /\ UNCHANGED <<response, evCount, execInput>>

\* AppendAssistantMessage called on its own
AppendAssistantMessageLookup(p) ==
    \E i \in Ids :
    /\ CanRLock(sessionMu)
    /\ IF sessions[i] = 0
       THEN CallStarts(p, i) /\ Reset(p)
       ELSE /\ Begin(p, "AppendAssistantMessage", i)
            /\ AppendFound(p, i, AssistantMessage("full", p))
            /\ result' = [result EXCEPT ![p] = NoResult]
    /\ UNCHANGED <<otherVars, readErr, cfgVars, regVars, reads, got>>

\* AppendAssistantMessage from session.mu.Lock(): append, deferred Unlock
AppendAssistantMessage(p) ==
    /\ pc[p] = "aam_lock"
    /\ CanLock(mu[sess[p]])
    /\ objs' = [objs EXCEPT ![sess[p]].Messages = Append(@, arg[p])]
    /\ Reset(p)
    /\ UNCHANGED <<otherVars, readErr, cfgVars, sessions, sessionMu, mu, store, calls, reads,
                   got>>

\* ------------------------------------------------------------ persistence
StoreWriteDrop(i, msgs, wok) == store
\* Store.Write as persistSession calls it: a failure is only logged
StoreWrite(i, msgs, wok) ==
    IF wok THEN [store EXCEPT ![i] = [ok |-> TRUE, msgs |-> msgs]] ELSE store

persistSessionRetries(p, msgs, wok) ==
    /\ store' = StoreWrite(sid[p], msgs, wok)
    /\ wrote' = [wrote EXCEPT ![p] =
                   IF wok THEN Append(@, [msgs |-> msgs, ok |-> wok])
                   ELSE @ \o << [msgs |-> msgs, ok |-> wok],
                                [msgs |-> msgs, ok |-> wok] >>]
persistSessionSkipped(p, msgs, wok) == UNCHANGED <<store, wrote>>
\* persistSession(ctx, sessionID, msgs) called by thread p; wrote records
\* the list handed to Store.Write and whether the Write succeeded
persistSession(p, msgs, wok) ==
    /\ store' = StoreWrite(sid[p], msgs, wok)
    /\ wrote' = [wrote EXCEPT ![p] = Append(@, [msgs |-> msgs, ok |-> wok])]

AfterUserDropsOldest(h, u) ==
    IF h = <<>> THEN <<u>> ELSE Append(Tail(h), u)
\* ---------------------------------------------------------------- Chat
\* the history after the user turn is added (part_002 also inserts the
\* system prompt into an empty history and applies the history limit)
AfterUser(h, u) ==
    IF impl = "adk"
    THEN Append(h, u)
    ELSE LET h1 == IF Len(h) = 0 /\ systemPrompt # ""
                   THEN <<SystemMessage(systemPrompt)>> ELSE h
             h2 == Append(h1, u)
         IN  IF maxHistory > 0 /\ Len(h2) > maxHistory * 2 + 1
             THEN <<h2[1]>> \o SubSeq(h2, Len(h2) - maxHistory * 2 + 1, Len(h2))
             ELSE h2

\* session.mu.Lock() in Chat and ChatStream
SessionLock(p) ==
    /\ CanLock(mu[sess[p]])
    /\ mu' = [mu EXCEPT ![sess[p]].w = p]

SessionUnlockKeep(p) == UNCHANGED mu
SessionUnlockNever(p) == mu' = mu
\* the deferred session.mu.Unlock() of Chat and ChatStream
SessionUnlock(p) ==
    mu' = [mu EXCEPT ![sess[p]].w = NoProc]

\* what the executor is given: agent.go passes userMessage alone to
\* runner.Query, part_002 passes session.Messages to Generate and Stream
ExecutorInput(p, o) ==
    IF impl = "adk" THEN <<UserMessage(text[p], p)>>
    ELSE o[sess[p]].Messages

\* Chat: session.mu.Lock(), the appends that follow it and, in agent.go,
\* the call of runner.Query
ChatLock(p) ==
    /\ pc[p] = "chat_lock"
    /\ SessionLock(p)
    /\ pre' = [pre EXCEPT ![p] = objs[sess[p]].Messages]
    /\ objs' = [objs EXCEPT ![sess[p]].Messages =
                  AfterUser(@, UserMessage(text[p], p))]
    /\ execInput' = [execInput EXCEPT ![p] = ExecutorInput(p, objs')]
    /\ pc' = [pc EXCEPT ![p] = "chat_exec"]
    /\ UNCHANGED <<otherVars, readErr, cfgVars, sessions, sessionMu, store, op, sid, text, arg,
                   sess, response, evCount, result, calls,
                   execErr, wrote, reads, got, overlap>>

ChatFailsAppending(p) ==
    /\ result' = [result EXCEPT ![p] = Failed]
    /\ sess' = [sess EXCEPT ![p] = 0]
    /\ pre' = [pre EXCEPT ![p] = <<>>]
    /\ objs' = [objs EXCEPT ![sess[p]].Messages =
                  Append(@, AssistantMessage("", p))]
    /\ UNCHANGED <<store, wrote>>
\* Chat's error return: return nil, err
ChatFails(p) ==
    /\ result' = [result EXCEPT ![p] = Failed]
    /\ sess' = [sess EXCEPT ![p] = 0]
    /\ pre' = [pre EXCEPT ![p] = <<>>]
    /\ UNCHANGED <<objs, store, wrote>>

\* Chat's successful return: append the response, persist, return it
ChatSucceeds(p, resp) ==
    LET h == Append(objs[sess[p]].Messages, resp) IN
    \E wok \in WriteOutcomes(sid[p], h) :
        /\ objs' = [objs EXCEPT ![sess[p]].Messages = h]
        /\ persistSession(p, h, wok)
        /\ result' = [result EXCEPT ![p] = Ok(resp)]
        /\ UNCHANGED <<sess, pre>>

\* the end of Chat: error return when there is no response, else append,
\* persist and return; the deferred Unlock runs in both cases
ChatFinish(p, resp, failed) ==
    /\ SessionUnlock(p)
    /\ pc' = [pc EXCEPT ![p] = "ret"]
    /\ arg' = [arg EXCEPT ![p] = NoMsg]
    /\ response' = [response EXCEPT ![p] = NoMsg]
    /\ evCount' = [evCount EXCEPT ![p] = 0]
    /\ execInput' = [execInput EXCEPT ![p] = <<>>]
    /\ IF failed THEN ChatFails(p) ELSE ChatSucceeds(p, resp)

\* the response variable after one event of the given kind (agent.go 200-209)
OnEvent(resp, kind, m) ==
    IF kind = "msg" THEN m ELSE resp

\* agent.go: one turn of the event loop in which events.Next() yields an
\* event with an error or with a message (an event with neither changes
\* nothing); evCount counts the message events
ChatEvent(p) ==
    /\ pc[p] = "chat_exec"
    /\ impl = "adk"
    /\ \E kind \in {"err", "msg"} :
         /\ kind = "msg" => evCount[p] < MaxEvents
         /\ evCount' = [evCount EXCEPT ![p] =
                          IF kind = "msg" THEN @ + 1 ELSE @]
         /\ execErr' = [execErr EXCEPT ![p] = @ \/ kind = "err"]
         /\ response' = [response EXCEPT ![p] =
                           OnEvent(@, kind, Reply(evCount[p] + 1, p))]
    /\ UNCHANGED <<otherVars, readErr, cfgVars, regVars, pc, op, sid, text, arg, sess, result,
                   calls, pre, execInput, wrote, reads, got, overlap>>

\* agent.go: events.Next() reports exhaustion, the loop ends, Chat returns
ChatReturn(p) ==
    /\ pc[p] = "chat_exec"
    /\ impl = "adk"
    /\ ChatFinish(p, response[p], response[p] = NoMsg)
    /\ UNCHANGED <<otherVars, readErr, cfgVars, sessions, sessionMu, op, sid, text, calls,
                   execErr, reads, got, overlap>>

\* part_002: response, err := a.agent.Generate(ctx, session.Messages)
\* returns, and Chat returns
ChatGenerate(p) ==
    /\ pc[p] = "chat_exec"
    /\ impl = "react"
    /\ \E failed \in BOOLEAN :
         /\ execErr' = [execErr EXCEPT ![p] = failed]
         /\ ChatFinish(p, IF failed THEN NoMsg ELSE Reply(1, p), failed)
    /\ UNCHANGED <<otherVars, readErr, cfgVars, sessions, sessionMu, op, sid, text, calls,
                   reads, got, overlap>>

\* ----------------------------------------------------------- ChatStream
\* ChatStream: session.mu.Lock(), the appends, persistSession
ChatStreamLock(p) ==
    /\ pc[p] = "stream_lock"
    /\ SessionLock(p)
    /\ pre' = [pre EXCEPT ![p] = objs[sess[p]].Messages]
    /\ LET h == AfterUser(objs[sess[p]].Messages,
                       UserMessage(text[p], p)) IN
       \E wok \in WriteOutcomes(sid[p], h) :
         /\ objs' = [objs EXCEPT ![sess[p]].Messages = h]
         /\ persistSession(p, h, wok)
    /\ pc' = [pc EXCEPT ![p] = "stream_exec"]
    /\ UNCHANGED <<otherVars, readErr, cfgVars, sessions, sessionMu, op, sid, text, arg, sess,
                   response, evCount, result, calls, execInput,
                   execErr, reads, got, overlap>>

\* the executor's stream is started: agent.go runs runner.Query,
\* schema.Pipe, starts the producer goroutine, waits for it and returns
\* streamReader, nil (whether the executor could start shows only in the
\* events it emits); part_002 runs a.agent.Stream(ctx, session.Messages)
\* and returns its reader or its error.  The deferred Unlock runs.
ChatStreamReturns(failed) ==
    IF impl = "react" /\ failed THEN Failed
    ELSE [NoResult EXCEPT !.handle = TRUE]

ChatStreamStart(p) ==
    /\ pc[p] = "stream_exec"
    /\ SessionUnlock(p)
    /\ \E failed \in BOOLEAN :
         /\ execErr' = [execErr EXCEPT ![p] = failed]
         /\ result' = [result EXCEPT ![p] = ChatStreamReturns(failed)]
         /\ IF result'[p].err
            THEN /\ Leave(p)
                 /\ pre' = [pre EXCEPT ![p] = <<>>]
                 /\ wrote' = [wrote EXCEPT ![p] = <<>>]
            ELSE /\ pc' = [pc EXCEPT ![p] = "consume"]
                 /\ execInput' = [execInput EXCEPT ![p] =
                                    ExecutorInput(p, objs)]
                 /\ UNCHANGED <<arg, sess, response, evCount, wrote, pre>>
    /\ UNCHANGED <<otherVars, readErr, cfgVars, sessions, objs, sessionMu, store, op, sid, text,
                   calls, reads, got, overlap>>

\* openai.go handleStreamResponse: the stream has been read to its end and
\* the handler calls AppendAssistantMessage with the collected content
StreamDrained(p) ==
    /\ pc[p] = "consume"
    /\ CanRLock(sessionMu)
    /\ IF sessions[sid[p]] = 0
       THEN Reset(p)
       ELSE /\ AppendFound(p, sid[p], AssistantMessage("full", p))
            /\ UNCHANGED <<op, sid, text, result, pre, wrote, execErr,
                           overlap>>
    /\ UNCHANGED <<otherVars, readErr, cfgVars, regVars, calls, reads, got>>

Next ==
    \E p \in Procs :
        \/ GetOrCreateSession(p)
        \/ ClearSession(p)
        \/ ListSessions(p)
        \/ GetSessionHistoryLookup(p)
        \/ GetSessionHistoryCopy(p)
        \/ AppendAssistantMessageLookup(p)
        \/ AppendAssistantMessage(p)
        \/ ChatLock(p)
        \/ ChatEvent(p)
        \/ ChatReturn(p)
        \/ ChatGenerate(p)
        \/ ChatStreamLock(p)
        \/ ChatStreamStart(p)
        \/ StreamDrained(p)

Spec == Init /\ [][Next]_vars

\* the steps of a call of thread p that is under way: lock acquisitions,
\* the executor's events and return, the persistence call, the drain of
\* the stream by the handler
Running(p) ==
    \/ GetSessionHistoryCopy(p)
    \/ AppendAssistantMessage(p)
    \/ ChatLock(p)
    \/ ChatEvent(p)
    \/ ChatReturn(p)
    \/ ChatGenerate(p)
    \/ ChatStreamLock(p)
    \/ ChatStreamStart(p)
    \/ StreamDrained(p)

\* every goroutine that can take its next step takes it: the executor and
\* the store return, and a goroutine waiting for a free mutex gets it
FairSpec ==
    /\ Init /\ [][Next]_vars
    /\ \A p \in Procs : WF_vars(Running(p))

\* ======================================================================
\* Stream Fan-In: the part of ChatStream after persistSession (agent.go
\* 243-293), the producer goroutine it starts, and a consumer of the
\* StreamReader it returns.  schema.Pipe is a buffered channel of items
\* with a "closed by the reader" signal: Send blocks while the buffer is
\* full and the reader has not closed, and returns at once, dropping the
\* item, when the reader has closed.
\* ======================================================================
MaxSrc == 3            \* events the source yields before it is exhausted
MaxSub == 2            \* results one MessageStream yields before its end
QueueCap == 2          \* capacity of the pipe (100 at agent.go 247)

EventKinds == {"err", "none", "msg", "stream"}

ItemCarriesError(n) == [chunk |-> n, err |-> TRUE]
\* streamWriter.Send(chunk, nil): the item carries the chunk and no error
Item(n) == [chunk |-> n, err |-> FALSE]

Items(lo, hi) == [k \in 1..(hi - lo + 1) |-> Item(lo + k - 1)]

WgWaitNoHandshake == TRUE
\* wg.Wait() returns
WgWait == wg = 0

SendNeverBlocks == FALSE
SendBlocksWhenFull == Len(queue) >= QueueCap
\* Send waits: the buffer is full and the reader has not closed
SendBlocks == ~closedRecv /\ Len(queue) >= QueueCap

EnqueueFront(q, it) == <<it>> \o q
\* an item enters the buffered channel
Enqueue(q, it) == Append(q, it)

AfterErrEventBreak == "closing"
\* where the producer goes after an event with Err != nil: continue
AfterErrEvent == "next"

\* events := a.runner.Query(...)
CallerQuery ==
    /\ cpc = "query"
    /\ cpc' = "pipe"
    /\ UNCHANGED <<agentVars, sumVars, storeVars, fmtVars, ppc, wg, pulled, subPulled, back,
                   exhausted, nFrag, pending, queue, closeCount, closedRecv,
                   received, sawEOF, errSeen, afterErr>>

\* streamReader, streamWriter := schema.Pipe(100)
CallerPipe ==
    /\ cpc = "pipe"
    /\ cpc' = "go"
    /\ UNCHANGED <<agentVars, sumVars, storeVars, fmtVars, ppc, wg, pulled, subPulled, back,
                   exhausted, nFrag, pending, queue, closeCount, closedRecv,
                   received, sawEOF, errSeen, afterErr>>

\* wg.Add(1); go func() {...}()
CallerGo ==
    /\ cpc = "go"
    /\ wg' = wg + 1
    /\ ppc' = "spawned"
    /\ cpc' = "wait"
    /\ UNCHANGED <<agentVars, sumVars, storeVars, fmtVars, pulled, subPulled, back, exhausted,
                   nFrag, pending, queue, closeCount, closedRecv, received,
                   sawEOF, errSeen, afterErr>>

\* wg.Wait(); return streamReader, nil
CallerWait ==
    /\ cpc = "wait"
    /\ WgWait
    /\ cpc' = "returned"
    /\ UNCHANGED <<agentVars, sumVars, storeVars, fmtVars, ppc, wg, pulled, subPulled, back,
                   exhausted, nFrag, pending, queue, closeCount, closedRecv,
                   received, sawEOF, errSeen, afterErr>>

\* the goroutine starts: wg.Done()
ProducerStart ==
    /\ ppc = "spawned"
    /\ wg' = wg - 1
    /\ ppc' = "next"
    /\ UNCHANGED <<agentVars, sumVars, storeVars, fmtVars, cpc, pulled, subPulled, back,
                   exhausted, nFrag, pending, queue, closeCount, closedRecv,
                   received, sawEOF, errSeen, afterErr>>

\* the source gives fragment nFrag + 1 and the producer goes to Send it
Emit(from) ==
    /\ nFrag' = nFrag + 1
    /\ pending' = nFrag + 1
    /\ afterErr' = IF errSeen THEN afterErr \cup {nFrag + 1} ELSE afterErr
    /\ back' = from
    /\ ppc' = "send"

\* event, ok := events.Next() and the branch taken on its result
ProducerNext ==
    /\ ppc = "next"
    /\ \/ /\ exhausted' = TRUE
          /\ ppc' = "closing"
          /\ UNCHANGED <<pulled, subPulled, back, nFrag, pending, errSeen,
                         afterErr>>
       \/ /\ pulled < MaxSrc
          /\ pulled' = pulled + 1
          /\ \E kind \in EventKinds :
               CASE kind = "err" ->
                      /\ errSeen' = TRUE
                      /\ ppc' = AfterErrEvent
                      /\ UNCHANGED <<subPulled, back, nFrag, pending,
                                     afterErr>>
                 [] kind = "none" ->
                      UNCHANGED <<ppc, subPulled, back, nFrag, pending,
                                  errSeen, afterErr>>
                 [] kind = "msg" ->
                      /\ Emit("next")
                      /\ UNCHANGED <<subPulled, errSeen>>
                 [] kind = "stream" ->
                      /\ subPulled' = 0
                      /\ ppc' = "recv"
                      /\ UNCHANGED <<back, nFrag, pending, errSeen,
                                     afterErr>>
          /\ UNCHANGED exhausted
    /\ UNCHANGED <<agentVars, sumVars, storeVars, fmtVars, cpc, wg, queue, closeCount,
                   closedRecv, received, sawEOF>>

\* chunk, err := event.Output.MessageOutput.MessageStream.Recv()
ProducerRecv ==
    /\ ppc = "recv"
    /\ \/ /\ ppc' = "next"
          /\ UNCHANGED <<subPulled, back, nFrag, pending, afterErr>>
       \/ /\ subPulled < MaxSub
          /\ subPulled' = subPulled + 1
          /\ \/ UNCHANGED <<ppc, back, nFrag, pending, afterErr>>
             \/ Emit("recv")
    /\ UNCHANGED <<agentVars, sumVars, storeVars, fmtVars, cpc, wg, pulled, exhausted, queue,
                   closeCount, closedRecv, received, sawEOF, errSeen>>

\* streamWriter.Send(chunk, nil) returns
ProducerSend ==
    /\ ppc = "send"
    /\ ~SendBlocks
    /\ queue' = IF closedRecv THEN queue ELSE Enqueue(queue, Item(pending))
    /\ pending' = 0
    /\ ppc' = back
    /\ UNCHANGED <<agentVars, sumVars, storeVars, fmtVars, cpc, wg, pulled, subPulled, back,
                   exhausted, nFrag, closeCount, closedRecv, received,
                   sawEOF, errSeen, afterErr>>

ProducerNeverCloses ==
    /\ ppc = "closing"
    /\ ppc' = "done"
    /\ UNCHANGED <<agentVars, sumVars, storeVars, fmtVars, cpc, wg, pulled, subPulled, back,
                   exhausted, nFrag, pending, queue, closeCount, closedRecv,
                   received, sawEOF, errSeen, afterErr>>
\* the loop has ended: the deferred streamWriter.Close() runs
ProducerClose ==
    /\ ppc = "closing"
    /\ closeCount' = closeCount + 1
    /\ ppc' = "done"
    /\ UNCHANGED <<agentVars, sumVars, storeVars, fmtVars, cpc, wg, pulled, subPulled, back,
                   exhausted, nFrag, pending, queue, closedRecv, received,
                   sawEOF, errSeen, afterErr>>

\* the consumer's stream.Recv() returns an item, or io.EOF when the pipe is
\* empty and the writer has closed it
ConsumerRecv ==
    /\ cpc = "returned"
    /\ ~closedRecv /\ ~sawEOF
    /\ \/ /\ queue # <<>>
          /\ received' = Append(received, Head(queue))
          /\ queue' = Tail(queue)
          /\ UNCHANGED sawEOF
       \/ /\ queue = <<>> /\ closeCount > 0
          /\ sawEOF' = TRUE
          /\ UNCHANGED <<received, queue>>
    /\ UNCHANGED <<agentVars, sumVars, storeVars, fmtVars, cpc, ppc, wg, pulled, subPulled,
                   back, exhausted, nFrag, pending, closeCount, closedRecv,
                   errSeen, afterErr>>

\* the consumer closes the StreamReader before it has seen io.EOF
ConsumerClose ==
    /\ cpc = "returned"
    /\ ~closedRecv /\ ~sawEOF
    /\ closedRecv' = TRUE
    /\ UNCHANGED <<agentVars, sumVars, storeVars, fmtVars, cpc, ppc, wg, pulled, subPulled,
                   back, exhausted, nFrag, pending, queue, closeCount,
                   received, sawEOF, errSeen, afterErr>>

Caller == CallerQuery \/ CallerPipe \/ CallerGo \/ CallerWait
Producer == ProducerStart \/ ProducerNext \/ ProducerRecv \/ ProducerSend
               \/ ProducerClose

InitFanIn ==
    /\ impl = "adk" /\ maxHistory = 0 /\ systemPrompt = ""
    /\ AgentIdle
    /\ FanInit
    /\ SumIdle
    /\ StoreIdle
    /\ FormatIdle

NextFanIn ==
    \/ CallerQuery
    \/ CallerPipe
    \/ CallerGo
    \/ CallerWait
    \/ ProducerStart
    \/ ProducerNext
    \/ ProducerRecv
    \/ ProducerSend
    \/ ProducerClose
    \/ ConsumerRecv
    \/ ConsumerClose

SpecFanIn == InitFanIn /\ [][NextFanIn]_vars

\* the goroutines are scheduled: the caller, the producer and a consumer
\* that is in Recv each take their next step when they can
FairFanIn ==
    /\ InitFanIn /\ [][NextFanIn]_vars
    /\ WF_vars(Caller) /\ WF_vars(Producer) /\ WF_vars(ConsumerRecv)

\* ======================================================================
\* History Compactor: package summarization (part_005).  A message is a
\* record, a nil *schema.Message is Nil, and a block holds the positions
\* of its messages in the input list (the pointers the code appends).
\* ======================================================================
MaxMsgs == 3           \* messages in the list given to ProcessMessages

DefaultMaxTokensBeforeSummary == 2000
DefaultMaxTokensForRecentMessages == 500
summaryMessageFlag == "_summary_message"

Nil == [role |-> "nil", content |-> "", calls |-> <<>>, callID |-> "",
        extra |-> {}]

Message(role, content) ==
    [role |-> role, content |-> content, calls |-> <<>>, callID |-> "",
     extra |-> {}]

ToolCall(id) == [id |-> id, name |-> "f", args |-> "a"]

\* the messages the input lists are drawn from
MsgKinds ==
    { Nil,
      Message("system", "s"),
      Message("user", "u"),
      Message("assistant", "a"),
      [Message("assistant", "sum") EXCEPT !.extra = {summaryMessageFlag}],
      [Message("assistant", "") EXCEPT !.calls = <<ToolCall("t1")>>],
      [Message("tool", "r") EXCEPT !.callID = "t1"],
      [Message("tool", "r") EXCEPT !.callID = "t2"],
      Message("tool", "r") }

\* the values a TokenCounter gives a message
TokenVals == {0, 1, DefaultMaxTokensBeforeSummary}

\* the configured values New is given; 0 selects the default
CfgVals == {0, 1}

MessageLists == UNION {[1..n -> MsgKinds] : n \in 0..MaxMsgs}

\* New: a configured value applies when it is positive
Effective(cfgVal, default) == IF cfgVal > 0 THEN cfgVal ELSE default

RECURSIVE SumTokens(_, _, _)
\* the sum of tk[a..b]
SumTokens(tk, a, b) == IF a > b THEN 0 ELSE tk[a] + SumTokens(tk, a + 1, b)

TriggersBelow(total, threshold) == total < threshold
\* total <= int64(m.maxBefore): no summarization
BelowThreshold(total, threshold) == total <= threshold

\* the block of the non-nil messages at positions a..b
RECURSIVE BlockOf(_, _, _, _)
BlockOf(ms, tk, a, b) ==
    IF a > b THEN EmptyBlock
    ELSE LET rest == BlockOf(ms, tk, a + 1, b)
         IN IF ms[a] = Nil THEN rest
            ELSE [msgs |-> <<a>> \o rest.msgs, tokens |-> tk[a] + rest.tokens]

\* idx after the System step
SystemEnd(ms) ==
    IF 0 < Len(ms) /\ ms[1] # Nil /\ ms[1].role = "system" THEN 1 ELSE 0

RECURSIVE UserEnd(_, _)
\* idx after the initial User step, started at idx
UserEnd(ms, idx) ==
    IF idx < Len(ms)
    THEN IF ms[idx + 1] = Nil THEN UserEnd(ms, idx + 1)
         ELSE IF ms[idx + 1].role # "user" THEN idx
         ELSE UserEnd(ms, idx + 1)
    ELSE idx

SummaryEndUntagged(ms, idx) ==
    IF /\ idx < Len(ms)
       /\ ms[idx + 1] # Nil
       /\ ms[idx + 1].role = "assistant"
    THEN idx + 1 ELSE idx
\* idx after the previous-summary step
SummaryEnd(ms, idx) ==
    IF /\ idx < Len(ms)
       /\ ms[idx + 1] # Nil
       /\ ms[idx + 1].role = "assistant"
       /\ summaryMessageFlag \in ms[idx + 1].extra
    THEN idx + 1 ELSE idx

CallIDs(m) == {m.calls[k].id : k \in 1..Len(m.calls)}

RECURSIVE AbsorbAnyTool(_, _, _)
AbsorbAnyTool(ms, callIDs, j) ==
    IF j <= Len(ms) /\ ms[j] # Nil /\ ms[j].role = "tool"
    THEN AbsorbAnyTool(ms, callIDs, j + 1) ELSE j

RECURSIVE Absorb(_, _, _)
\* j after the Tool messages an assistant with these call ids collects
Absorb(ms, callIDs, j) ==
    IF /\ j <= Len(ms)
       /\ ms[j] # Nil
       /\ ms[j].role = "tool"
       /\ (ms[j].callID = "" \/ ms[j].callID \in callIDs)
    THEN Absorb(ms, callIDs, j + 1) ELSE j

RECURSIVE ToolBlocksSkipAfterExchange(_, _, _)
ToolBlocksSkipAfterExchange(ms, tk, i) ==
    IF i > Len(ms) THEN <<>>
    ELSE IF ms[i] = Nil THEN ToolBlocksSkipAfterExchange(ms, tk, i + 1)
    ELSE IF ms[i].role = "assistant" /\ Len(ms[i].calls) > 0
    THEN LET j == Absorb(ms, CallIDs(ms[i]), i + 1)
         IN <<[msgs |-> [k \in 1..(j - i) |-> i + k - 1],
               tokens |-> SumTokens(tk, i, j - 1)]>>
            \o ToolBlocksSkipAfterExchange(ms, tk, j + 1)
    ELSE <<[msgs |-> <<i>>, tokens |-> tk[i]]>>
         \o ToolBlocksSkipAfterExchange(ms, tk, i + 1)

RECURSIVE ToolBlocks(_, _, _)
\* the blocks of the last loop of splitMessages, from position i
ToolBlocks(ms, tk, i) ==
    IF i > Len(ms) THEN <<>>
    ELSE IF ms[i] = Nil THEN ToolBlocks(ms, tk, i + 1)
    ELSE IF ms[i].role = "assistant" /\ Len(ms[i].calls) > 0
    THEN LET j == Absorb(ms, CallIDs(ms[i]), i + 1)
         IN <<[msgs |-> [k \in 1..(j - i) |-> i + k - 1],
               tokens |-> SumTokens(tk, i, j - 1)]>> \o ToolBlocks(ms, tk, j)
    ELSE <<[msgs |-> <<i>>, tokens |-> tk[i]]>> \o ToolBlocks(ms, tk, i + 1)

splitMessages(ms, tk) ==
    LET s == SystemEnd(ms)
        u == UserEnd(ms, s)
        p == SummaryEnd(ms, u)
    IN [systemBlock |-> BlockOf(ms, tk, 1, s),
        userBlock |-> BlockOf(ms, tk, s + 1, u),
        summaryBlock |-> BlockOf(ms, tk, u + 1, p),
        toolBlocks |-> ToolBlocks(ms, tk, p + 1)]

RECURSIVE SplitRecentStops(_, _, _)
SplitRecentStops(bs, i, budget) ==
    IF i > Len(bs)
    THEN NoWalk
    ELSE LET r == SplitRecentStops(bs, i + 1, budget)
             b == bs[i]
         IN IF r.olderBlocks # <<>> \/ r.recentTokens + b.tokens > budget
            THEN [r EXCEPT !.olderBlocks = <<b>> \o @]
            ELSE [recentBlocks |-> <<b>> \o r.recentBlocks,
                  olderBlocks |-> r.olderBlocks,
                  recentTokens |-> r.recentTokens + b.tokens]

RECURSIVE SplitRecent(_, _, _)
\* the recent and older blocks after the walk from the newest block down to
\* block i
SplitRecent(blocks, i, budget) ==
    IF i > Len(blocks)
    THEN NoWalk
    ELSE LET r == SplitRecent(blocks, i + 1, budget)
             b == blocks[i]
         IN IF r.recentTokens + b.tokens > budget
            THEN [r EXCEPT !.olderBlocks = <<b>> \o @]
            ELSE [recentBlocks |-> <<b>> \o r.recentBlocks,
                  olderBlocks |-> r.olderBlocks,
                  recentTokens |-> r.recentTokens + b.tokens]

RECURSIVE RenderCalls(_, _)
RenderCalls(tcs, k) ==
    IF k > Len(tcs) THEN <<>>
    ELSE (IF tcs[k].name # "" THEN <<"tool_call: ", tcs[k].name, "\n">>
          ELSE <<>>)
         \o (IF tcs[k].args # "" THEN <<"args: ", tcs[k].args, "\n">>
             ELSE <<>>)
         \o RenderCalls(tcs, k + 1)

renderMsgWithoutCalls(m) ==
    IF m = Nil THEN <<>>
    ELSE <<"[", m.role, "]\n">>
         \o (IF m.content # "" THEN <<m.content, "\n">> ELSE <<>>)

\* the text of one message, as the pieces written to the builder
renderMsg(m) ==
    IF m = Nil THEN <<>>
    ELSE <<"[", m.role, "]\n">>
         \o (IF m.content # "" THEN <<m.content, "\n">> ELSE <<>>)
         \o (IF m.role = "assistant" /\ Len(m.calls) > 0
             THEN RenderCalls(m.calls, 1) ELSE <<>>)

RECURSIVE RenderBlock(_, _, _)
RenderBlock(ms, idxs, k) ==
    IF k > Len(idxs) THEN <<>>
    ELSE renderMsg(ms[idxs[k]]) \o <<"\n">> \o RenderBlock(ms, idxs, k + 1)

RECURSIVE joinBlocks(_, _, _)
joinBlocks(ms, blocks, k) ==
    IF k > Len(blocks) THEN <<>>
    ELSE RenderBlock(ms, blocks[k].msgs, 1) \o joinBlocks(ms, blocks, k + 1)

\* what m.counter can return for a list of n messages: an error, one count
\* per message, or a list of another length
CounterResults(n) ==
    {[err |-> TRUE, tokens |-> <<>>]}
      \cup {[err |-> FALSE, tokens |-> t] : t \in [1..n -> TokenVals]}
      \cup {[err |-> FALSE, tokens |-> [k \in 1..(n - 1) |-> 1]],
            [err |-> FALSE, tokens |-> [k \in 1..(n + 1) |-> 1]]}

ReturnErrorWithMessages == [msgs |-> messages, err |-> TRUE]
\* return nil, fmt.Errorf(...)
ReturnError == [msgs |-> <<>>, err |-> TRUE]

ReturnWithoutOldest ==
    [msgs |-> SubSeq(messages, 2, Len(messages)), err |-> FALSE]
\* return messages, nil
ReturnMessages == [msgs |-> messages, err |-> FALSE]

CountMismatchOnlyShorter(ms, tk) == Len(tk) < Len(ms)
\* len(messages) != len(msgsToken)
CountMismatch(ms, tk) == Len(ms) # Len(tk)

ProcessMessagesSkipsEmptyOlder ==
    /\ sumPc = "ready"
    /\ sumPc' = "done"
    /\ IF Len(messages) = 0
       THEN /\ returned' = ReturnMessages
            /\ UNCHANGED <<msgsToken, counterFails, summarizerFails,
                           invocations, olderText, splits, classified, walk>>
       ELSE \E c \in counter :
              /\ counterFails' = c.err
              /\ msgsToken' = c.tokens
              /\ IF c.err \/ CountMismatch(messages, c.tokens)
                 THEN /\ returned' = ReturnError
                      /\ UNCHANGED <<summarizerFails, invocations, olderText,
                                     splits, classified, walk>>
                 ELSE IF BelowThreshold(SumTokens(c.tokens, 1, Len(c.tokens)),
                                        maxBefore)
                 THEN /\ returned' = ReturnMessages
                      /\ UNCHANGED <<summarizerFails, invocations, olderText,
                                     splits, classified, walk>>
                 ELSE /\ splits' = splits + 1
                      /\ classified' = splitMessages(messages, c.tokens)
                      /\ walk' = SplitRecent(classified'.toolBlocks, 1, maxRecent)
                      /\ olderText' = joinBlocks(messages, walk'.olderBlocks, 1)
                      /\ invocations' = IF walk'.olderBlocks = <<>> THEN invocations
                                        ELSE invocations + 1
                      /\ \E fails \in BOOLEAN :
                           /\ summarizerFails' = fails
                           /\ returned' = IF fails THEN ReturnError
                                          ELSE ReturnMessages
    /\ UNCHANGED <<agentVars, fanVars, storeVars, fmtVars, messages,
                   maxBefore, maxRecent, counter>>

\* one call of ProcessMessages on the list in messages
ProcessMessages ==
    /\ sumPc = "ready"
    /\ sumPc' = "done"
    /\ IF Len(messages) = 0
       THEN /\ returned' = ReturnMessages
            /\ UNCHANGED <<msgsToken, counterFails, summarizerFails,
                           invocations, olderText, splits, classified, walk>>
       ELSE \E c \in counter :
              /\ counterFails' = c.err
              /\ msgsToken' = c.tokens
              /\ IF c.err \/ CountMismatch(messages, c.tokens)
                 THEN /\ returned' = ReturnError
                      /\ UNCHANGED <<summarizerFails, invocations, olderText,
                                     splits, classified, walk>>
                 ELSE IF BelowThreshold(SumTokens(c.tokens, 1, Len(c.tokens)),
                                        maxBefore)
                 THEN /\ returned' = ReturnMessages
                      /\ UNCHANGED <<summarizerFails, invocations, olderText,
                                     splits, classified, walk>>
                 ELSE /\ splits' = splits + 1
                      /\ classified' = splitMessages(messages, c.tokens)
                      /\ walk' = SplitRecent(classified'.toolBlocks, 1, maxRecent)
                      /\ olderText' = joinBlocks(messages, walk'.olderBlocks, 1)
                      /\ invocations' = invocations + 1
                      /\ \E fails \in BOOLEAN :
                           /\ summarizerFails' = fails
                           /\ returned' = IF fails THEN ReturnError
                                          ELSE ReturnMessages
    /\ UNCHANGED <<agentVars, fanVars, storeVars, fmtVars, messages,
                   maxBefore, maxRecent, counter>>

\* a Middleware New built, about to be called once
Ready ==
    /\ impl = "adk" /\ maxHistory = 0 /\ systemPrompt = ""
    /\ AgentIdle
    /\ FanInit
    /\ StoreIdle
    /\ FormatIdle
    /\ msgsToken = <<>>
    /\ counterFails = FALSE
    /\ summarizerFails = FALSE
    /\ sumPc = "ready"
    /\ returned = NoReturn
    /\ invocations = 0
    /\ olderText = <<>>
    /\ splits = 0
    /\ classified = NoBlocks
    /\ walk = NoWalk

InitSum ==
    /\ Ready
    /\ messages \in MessageLists
    /\ counter = CounterResults(Len(messages))
    /\ \E b \in CfgVals, r \in CfgVals :
         /\ maxBefore = Effective(b, DefaultMaxTokensBeforeSummary)
         /\ maxRecent = Effective(r, DefaultMaxTokensForRecentMessages)

\* [System, User, User, AssistantWithCalls(t1,t2), Tool(t1), Tool(t2),
\* Assistant]
ExampleMessages ==
    << Message("system", "s"),
       Message("user", "u"),
       Message("user", "u"),
       [Message("assistant", "") EXCEPT
           !.calls = <<ToolCall("t1"), ToolCall("t2")>>],
       [Message("tool", "r") EXCEPT !.callID = "t1"],
       [Message("tool", "r") EXCEPT !.callID = "t2"],
       Message("assistant", "a") >>

\* the bounded lists and the seven-message list
InitBlocks ==
    /\ Ready
    /\ messages \in MessageLists \cup {ExampleMessages}
    /\ counter = CounterResults(Len(messages))
    /\ \E b \in CfgVals, r \in CfgVals :
         /\ maxBefore = Effective(b, DefaultMaxTokensBeforeSummary)
         /\ maxRecent = Effective(r, DefaultMaxTokensForRecentMessages)

\* messages of step-4 blocks, counts and budgets for the walk
WalkKinds ==
    { Message("assistant", "a"),
      [Message("assistant", "") EXCEPT !.calls = <<ToolCall("t1")>>],
      [Message("tool", "r") EXCEPT !.callID = "t1"] }

WalkTokenVals == {1, 3, 4, 5}

WalkBudgets == {4, 10}

InitWalk ==
    /\ Ready
    /\ messages \in UNION {[1..n -> WalkKinds] : n \in 0..MaxMsgs}
    /\ counter = {[err |-> FALSE, tokens |-> t] :
                     t \in [1..Len(messages) -> WalkTokenVals]}
    /\ maxBefore = Effective(1, DefaultMaxTokensBeforeSummary)
    /\ \E r \in WalkBudgets :
         maxRecent = Effective(r, DefaultMaxTokensForRecentMessages)

NextSum == ProcessMessages

SpecSum == InitSum /\ [][NextSum]_vars

SpecBlocks == InitBlocks /\ [][NextSum]_vars

SpecWalk == InitWalk /\ [][NextSum]_vars

\* ======================================================================
\* Stores: InMemoryStore (inmem.go) and RedisStore (part_001) with the gob
\* encoding of EncodeMessages / DecodeMessages.  A stored message carries
\* what gob treats specially: a slice that is nil or empty, a map that is
\* nil or empty, and the *int Index of a tool call.
\* ======================================================================
MaxStored == 2         \* messages in a list given to Write

Prefix == "eino:session:"

\* ToolCalls: a slice, nil or not
Slice(isNil, items) == [nil |-> isNil, items |-> items]

\* Extra: a map, nil or not, with these keys (values true)
Map(isNil, keys) == [nil |-> isNil, keys |-> keys]

StoredCall(id, index) == [id |-> id, name |-> "f", args |-> "a", index |-> index]

StoredMessage(role, content, tcs, extra) ==
    [ptr |-> "set", role |-> role, content |-> content, calls |-> tcs,
     extra |-> extra]

\* a nil *schema.Message
NilMessage ==
    [ptr |-> "nil", role |-> "", content |-> "", calls |-> Slice(TRUE, <<>>),
     extra |-> Map(TRUE, {})]

StoreMsgs ==
    { NilMessage,
      StoredMessage("user", "u", Slice(TRUE, <<>>), Map(TRUE, {})),
      StoredMessage("assistant", "", Slice(FALSE, <<StoredCall("t1", "zero")>>),
                    Map(FALSE, {})),
      StoredMessage("assistant", "sum", Slice(FALSE, <<>>),
                    Map(FALSE, {summaryMessageFlag})) }

StoreLists == UNION {[1..n -> StoreMsgs] : n \in 0..MaxStored}

\* gob sends a field only when it is not the zero value: an empty string, an
\* empty slice, a nil map and a nil or zero *int are left out
SentOfCall(c) ==
    {f \in {"id", "name", "args"} : c[f] # ""}
       \cup (IF c.index = "one" THEN {"index"} ELSE {})

EncodeCall(c) == [f \in SentOfCall(c) |-> c[f]]

SentOfMessage(m) ==
    {f \in {"role", "content"} : m[f] # ""}
       \cup (IF Len(m.calls.items) > 0 THEN {"calls"} ELSE {})
       \cup (IF ~m.extra.nil THEN {"extra"} ELSE {})

EncodeMessage(m) ==
    [f \in SentOfMessage(m) |->
        CASE f = "calls" -> [k \in 1..Len(m.calls.items) |->
                                EncodeCall(m.calls.items[k])]
          [] f = "extra" -> m.extra.keys
          [] OTHER -> m[f]]

\* enc.Encode(msgs): a nil element is an error
EncodeMessages(msgs) ==
    IF \E k \in 1..Len(msgs) : msgs[k].ptr = "nil"
    THEN [err |-> TRUE, bytes |-> <<>>]
    ELSE [err |-> FALSE,
          bytes |-> [k \in 1..Len(msgs) |-> EncodeMessage(msgs[k])]]

DecodeCall(e) ==
    [id |-> IF "id" \in DOMAIN e THEN e.id ELSE "",
     name |-> IF "name" \in DOMAIN e THEN e.name ELSE "",
     args |-> IF "args" \in DOMAIN e THEN e.args ELSE "",
     index |-> IF "index" \in DOMAIN e THEN e.index ELSE "nil"]

DecodeMessage(e) ==
    StoredMessage(
        IF "role" \in DOMAIN e THEN e.role ELSE "",
        IF "content" \in DOMAIN e THEN e.content ELSE "",
        IF "calls" \in DOMAIN e
        THEN Slice(FALSE, [k \in 1..Len(e.calls) |-> DecodeCall(e.calls[k])])
        ELSE Slice(TRUE, <<>>),
        IF "extra" \in DOMAIN e THEN Map(FALSE, e.extra) ELSE Map(TRUE, {}))

\* dec.Decode(&msgs) of bytes EncodeMessages produced
DecodeMessages(bytes) == [k \in 1..Len(bytes) |-> DecodeMessage(bytes[k])]

KeyPrefixOnly(kind, id) == IF kind = "redis" THEN <<Prefix, "">> ELSE <<"">>
\* the map key of InMemoryStore, and s.prefix + sessionID of RedisStore
Key(kind, id) == IF kind = "redis" THEN <<Prefix, id>> ELSE <<id>>

Keys(kind) == {Key(kind, i) : i \in Ids}

\* Store.Write(ctx, sessionID, msgs)
Write ==
    \E i \in Ids, msgs \in StoreLists :
      /\ storeKind \in {"inmem", "redis"}
      /\ IF storeKind = "inmem"
         THEN /\ data' = [data EXCEPT ![Key(storeKind, i)] =
                              [has |-> TRUE, val |-> msgs]]
              /\ lastWrite' = [lastWrite EXCEPT ![i] =
                                  [has |-> TRUE, val |-> msgs]]
         ELSE LET b == EncodeMessages(msgs)
              IN IF b.err
                 THEN UNCHANGED <<data, lastWrite>>
                 ELSE \/ UNCHANGED <<data, lastWrite>>
                      \/ /\ data' = [data EXCEPT ![Key(storeKind, i)] =
                                        [has |-> TRUE, val |-> b.bytes]]
                         /\ lastWrite' = [lastWrite EXCEPT ![i] =
                                             [has |-> TRUE, val |-> msgs]]
      /\ UNCHANGED <<agentVars, fanVars, sumVars, fmtVars, storeKind, readRes>>

\* Store.Read(ctx, sessionID)
Read ==
    \E i \in Ids :
      /\ storeKind \in {"inmem", "redis"}
      /\ LET v == data[Key(storeKind, i)]
         IN IF storeKind = "inmem"
            THEN readRes' = [id |-> i, msgs |-> v.val, err |-> FALSE]
            ELSE \/ readRes' = [id |-> i, msgs |-> <<>>, err |-> TRUE]
                 \/ readRes' = [id |-> i,
                                msgs |-> IF v.has THEN DecodeMessages(v.val)
                                         ELSE <<>>,
                                err |-> FALSE]
      /\ UNCHANGED <<agentVars, fanVars, sumVars, fmtVars, storeKind, data,
                     lastWrite>>

InitStore ==
    /\ impl = "adk" /\ maxHistory = 0 /\ systemPrompt = ""
    /\ AgentIdle
    /\ FanInit
    /\ SumIdle
    /\ FormatIdle
    /\ storeKind \in {"inmem", "redis"}
    /\ data = [k \in Keys(storeKind) |-> NoValue]
    /\ lastWrite = [i \in Ids |-> NoValue]
    /\ readRes = NoRead

NextStore ==
    \/ Write
    \/ Read

SpecStore == InitStore /\ [][NextStore]_vars

\* ======================================================================
\* Tool-result formatting: the AfterChatModel middleware of NewAgent
\* (agent.go 69-88) and formatToolResult (372-404).  A content string is
\* what the function looks at: whether white space surrounds it, and what
\* lies between - plain text, JSON that starts with {"content" and decodes
\* into parts, text that starts with {"content" and does not decode, or
\* other JSON.  Text is a sequence of pieces.
\* ======================================================================
MaxState == 2          \* messages in state.Messages

Content(ws, shape, txt, parts) ==
    [ws |-> ws, shape |-> shape, text |-> txt, parts |-> parts]

\* the empty string
Empty == Content(FALSE, "text", <<>>, <<>>)

Part(type, txt) == [type |-> type, text |-> txt]

PartLists ==
    { <<>>,
      <<Part("text", <<>>)>>,
      <<Part("text", <<"a">>)>>,
      <<Part("text", <<"a">>), Part("image", <<"i">>), Part("text", <<"b">>)>> }

Contents ==
    {Content(ws, "text", t, <<>>) : ws \in BOOLEAN, t \in {<<>>, <<"x">>}}
      \cup {Content(ws, "mcp", <<>>, ps) : ws \in BOOLEAN, ps \in PartLists}
      \cup {Content(ws, sh, <<>>, <<>>) : ws \in BOOLEAN, sh \in {"broken", "other"}}

\* strings.TrimSpace
TrimSpace(c) == [c EXCEPT !.ws = FALSE]

\* strings.HasPrefix(content, `{"content"`)
HasPrefix(c) == ~c.ws /\ c.shape \in {"mcp", "broken"}

RECURSIVE TextOf(_, _)
\* the Text of the items of type "text" with a non-empty Text, written to
\* the builder in order
TextOf(ps, k) ==
    IF k > Len(ps) THEN <<>>
    ELSE (IF ps[k].type = "text" /\ ps[k].text # <<>> THEN ps[k].text
          ELSE <<>>) \o TextOf(ps, k + 1)

formatToolResult(c) ==
    LET t == TrimSpace(c)
    IN IF ~HasPrefix(t) THEN t
       ELSE IF t.shape = "broken" THEN t
       ELSE IF TextOf(t.parts, 1) = <<>> THEN t
       ELSE Content(FALSE, "text", TextOf(t.parts, 1), <<>>)

\* a message of state.Messages: tcs are the ids of its ToolCalls
StateMessage(role, content, callID, tcs) ==
    [role |-> role, content |-> content, callID |-> callID, calls |-> tcs]

\* schema.ToolMessage(content, toolCallID)
ToolMessage(content, toolCallID) ==
    StateMessage("tool", content, toolCallID, <<>>)

StateMsgs ==
    {StateMessage("tool", c, "t1", tcs) :
        c \in Contents, tcs \in {<<>>, <<"t2">>}}
      \cup {StateMessage("assistant", c, "", <<"t1">>) :
              c \in {Empty, Content(TRUE, "mcp", <<>>,
                                    <<Part("text", <<"a">>)>>)}}

\* the message the loop body leaves at an index that held msg
Formatted(msg) ==
    IF msg.role = "tool" /\ msg.content # Empty
    THEN LET formatted == formatToolResult(msg.content)
         IN IF formatted # msg.content
            THEN ToolMessage(formatted,
                             IF Len(msg.calls) > 0 THEN msg.calls[1] ELSE "")
            ELSE msg
    ELSE msg

\* the AfterChatModel function runs over state.Messages
AfterChatModel ==
    /\ fmtPc = "ready"
    /\ fmtPc' = "done"
    /\ stateMessages' = [k \in 1..Len(stateMessages) |->
                            Formatted(stateMessages[k])]
    /\ UNCHANGED <<agentVars, fanVars, sumVars, storeVars, origMessages>>

InitFormat ==
    /\ impl = "adk" /\ maxHistory = 0 /\ systemPrompt = ""
    /\ AgentIdle
    /\ FanInit
    /\ SumIdle
    /\ StoreIdle
    /\ stateMessages \in UNION {[1..n -> StateMsgs] : n \in 0..MaxState}
    /\ origMessages = stateMessages
    /\ fmtPc = "ready"

NextFormat == AfterChatModel

SpecFormat == InitFormat /\ [][NextFormat]_vars

\* ======================================================================
\* Properties
\* ======================================================================
Hist(o) == objs[o].Messages
U(p) == UserMessage(text[p], p)
ChatOk(p) == pc[p] = "ret" /\ op[p] = "Chat" /\ ~result[p].err

\* two Chat calls by different threads on one Session object, both returned
\* successfully, whose executions overlapped in time
BothChatsDone(p, q) ==
    /\ p # q
    /\ ChatOk(p) /\ ChatOk(q)
    /\ sess[p] = sess[q]
    /\ (p \in overlap[q] \/ q \in overlap[p])

\* the history a Chat call of thread p alone makes of history h
SeqChat(h, p) == Append(AfterUser(h, U(p)), result[p].msg)

Mutating(p) == pc[p] \in {"chat_exec", "stream_exec"}

\* C2 as stated: at most one operation is inside a history-mutating section
\* for a given session id at any time.
C2_OneMutatorPerId ==
    \A p, q \in Procs :
        (p # q /\ Mutating(p) /\ Mutating(q)) => sid[p] # sid[q]

\* C3: between two ClearSession calls of an id, every GetOrCreateSession of
\* that id returns the same Session object, the one registered, and
\* Store.Read is called at most once for the id.
C3_SameObjectOneRead ==
    \A i \in Ids :
        /\ reads[i] <= 1
        /\ Cardinality(got[i]) <= 1
        /\ got[i] # {} => got[i] = {sessions[i]}

C3_Witness ==
    \E p, q \in Procs :
        /\ p # q
        /\ InFlight(p) /\ InFlight(q)
        /\ op[p] \in {"Chat", "ChatStream"} /\ op[q] \in {"Chat", "ChatStream"}
        /\ sid[p] = sid[q]
        /\ sess[p] = sess[q] /\ sess[p] # 0
        /\ got[sid[p]] = {sess[p]}
        /\ reads[sid[p]] = 1

Last(s) == s[Len(s)]

\* the step in which the Chat call of thread p returns a reply / an error
ChatReturnsOk(p) == pc[p] = "chat_exec" /\ pc'[p] = "ret" /\ ~result'[p].err
ChatReturnsErr(p) == pc[p] = "chat_exec" /\ pc'[p] = "ret" /\ result'[p].err

\* the call of p made exactly one Store.Write, it carried list h, and if it
\* succeeded the store holds h for the id
WroteOnce(w, st, i, h) ==
    /\ Len(w) = 1
    /\ w[1].msgs = h
    /\ w[1].ok => st[i] = [ok |-> TRUE, msgs |-> h]

\* C4 as stated: a successful Chat(id, text) extends the history by exactly
\* two messages, User(text) then the returned reply, and when the Write
\* succeeds the persisted history is the in-memory history at the return.
C4_ExactlyTwo ==
    [][\A p \in Procs : ChatReturnsOk(p) =>
         /\ objs'[sess[p]].Messages = pre[p] \o <<U(p), result'[p].msg>>
         /\ WroteOnce(wrote'[p], store', sid[p], objs'[sess[p]].Messages)]_vars

\* C4 amended: a successful Chat(id, text) leaves the history as the list it
\* built for the executor (the prior history, preceded by the system prompt
\* when the prior history was empty and a prompt is configured, followed by
\* User(text), cut to the history limit) immediately followed by the
\* returned reply; it returns that reply, it is a real message, and the one
\* list it hands to Write is the full in-memory history at the return, which
\* the store holds when the Write succeeds.
C4_HistoryPlusReply ==
    [][\A p \in Procs : ChatReturnsOk(p) =>
         /\ objs'[sess[p]].Messages =
                Append(AfterUser(pre[p], U(p)), result'[p].msg)
         /\ result'[p].msg.role = "assistant"
         /\ WroteOnce(wrote'[p], store', sid[p], objs'[sess[p]].Messages)]_vars

C4_Witness ==
    \E p \in Procs :
        /\ ChatOk(p)
        /\ impl = "react"
        /\ pre[p] # <<>>
        /\ Hist(sess[p]) = Append(AfterUser(pre[p], U(p)), result[p].msg)
        /\ Len(Hist(sess[p])) < Len(pre[p]) + 2
        /\ wrote[p][1].ok
        /\ store[sid[p]].msgs = Hist(sess[p])

\* C5 as stated: while the executor runs for a Chat call, the input it was
\* handed is the session's current message list (prior history and the new
\* User message).
C5_ExecutorGetsHistory ==
    \A p \in Procs : pc[p] = "chat_exec" => execInput[p] = Hist(sess[p])

\* C6 as stated: a Chat in which the executor reported an error returns an
\* error and no message, and a Chat that returns no error returns a message.
C6_ErrorWhenExecutorFails ==
    \A p \in Procs : (pc[p] = "ret" /\ op[p] = "Chat") =>
        /\ execErr[p] => (result[p].err /\ result[p].msg = NoMsg)
        /\ ~result[p].err => result[p].msg # NoMsg

\* C7 as stated: a Chat that fails leaves the lock released, the registry
\* unchanged, no Write, and the history equal to the pre-call history plus
\* at most the appended User message.
C7_PriorPlusUser ==
    [][\A p \in Procs : ChatReturnsErr(p) =>
         /\ mu'[sess[p]].w = NoProc
         /\ sessions' = sessions
         /\ store' = store /\ wrote'[p] = <<>>
         /\ objs'[sess[p]].Messages \in {pre[p], Append(pre[p], U(p))}]_vars

\* C7 amended: a Chat that fails leaves the lock released, the registry
\* unchanged, no Write, and the history equal to the list built for the
\* executor (the pre-call history, preceded by the system prompt when it was
\* empty and a prompt is configured, followed by the User message, cut to
\* the history limit), with no assistant message added.
C7_IntactForRetry ==
    [][\A p \in Procs : ChatReturnsErr(p) =>
         /\ mu'[sess[p]].w = NoProc
         /\ sessions' = sessions
         /\ store' = store /\ wrote'[p] = <<>>
         /\ objs'[sess[p]].Messages = AfterUser(pre[p], U(p))]_vars

\* a Chat of p failed and a following Chat of q on the same id, which found
\* the User message of the failed call last in the history, succeeded
C7_Witness ==
    \E p, q \in Procs :
        /\ p # q
        /\ pc[p] = "ret" /\ op[p] = "Chat" /\ result[p].err
        /\ ChatOk(q) /\ sid[q] = sid[p]
        /\ q \notin overlap[p]
        /\ pre[q] # <<>> /\ Last(pre[q]) = U(p)

\* C8: when ChatStream is about to start the executor's stream, the call
\* has made its Write (the last one made for its Session, whose lock the
\* call still holds), and the list written is the Session's history, which
\* ends with the new User message.
C8_PersistBeforeStream ==
    \A p \in Procs : pc[p] = "stream_exec" =>
        /\ mu[sess[p]].w = p
        /\ Len(wrote[p]) = 1
        /\ wrote[p][1].msgs = Hist(sess[p])
        /\ Last(wrote[p][1].msgs) = U(p)

C8_Witness ==
    \E p \in Procs :
        /\ pc[p] = "stream_exec"
        /\ pre[p] # <<>>
        /\ wrote[p][1].ok
        /\ store[sid[p]].msgs = Append(pre[p], U(p))

\* C9: a thread whose ChatStream has returned the stream handle holds no
\* session lock, whether or not the stream has been drained.
C9_LockReleasedOnReturn ==
    \A p \in Procs : (op[p] = "ChatStream" /\ result[p].handle) =>
        \A o \in 1..Len(mu) : mu[o].w # p

\* the stream of p is not drained and a Chat of q on the same Session,
\* started after ChatStream returned, has completed
C9_Witness ==
    \E p, q \in Procs :
        /\ p # q
        /\ pc[p] = "consume"
        /\ ChatOk(q) /\ sess[q] = sess[p]
        /\ pre[q] # <<>> /\ Last(pre[q]) = U(p)

\* C10 as stated: a ChatStream whose executor could not start the stream
\* has returned an error and no stream handle.
C10_ErrorWhenStreamCannotStart ==
    \A p \in Procs :
        (op[p] = "ChatStream" /\ execErr[p]
            /\ pc[p] \in {"consume", "aam_lock", "ret"}) =>
        (result[p].err /\ ~result[p].handle)

\* the step in which the streaming exchange of thread p ends: the handler's
\* AppendAssistantMessage appends the collected reply
StreamExchangeEnds(p) ==
    pc[p] = "aam_lock" /\ op[p] = "ChatStream" /\ pc'[p] = "idle"

Persisted(st, i, h) == st[i] = [ok |-> TRUE, msgs |-> h]

\* C11 as stated: when an exchange whose Write did not fail finishes (Chat
\* returns a reply, or a streaming exchange ends with
\* AppendAssistantMessage), the persisted history of the id equals the
\* in-memory history.
C11_PersistedAfterExchange ==
    [][\A p \in Procs :
         /\ (ChatReturnsOk(p) /\ wrote'[p][1].ok) =>
                Persisted(store', sid[p], objs'[sess[p]].Messages)
         /\ (StreamExchangeEnds(p) /\ wrote[p][1].ok) =>
                Persisted(store', sid[p], objs'[sess[p]].Messages)]_vars

HoldsRegistry(q) == sessionMu.w = q \/ q \in sessionMu.r
HoldsSession(q) == \E o \in 1..Len(mu) : mu[o].w = q \/ q \in mu[o].r
AtSessionLock(q) ==
    pc[q] \in {"chat_lock", "stream_lock", "aam_lock", "gsh_copy"}

\* some thread holds the registry lock while it waits for the session lock
\* that thread p holds
RegistryHeldWaitingFor(p) ==
    \E q \in Procs : HoldsRegistry(q) /\ AtSessionLock(q)
                        /\ mu[sess[q]].w = p

\* C18 as stated: while a Chat is inside its executor call, no other call
\* keeps the registry lock until that executor call returns, so operations
\* on other sessions (which need the registry lock) can run to completion.
C18_NoWaitAcrossSessions ==
    \A p \in Procs : pc[p] = "chat_exec" => ~RegistryHeldWaitingFor(p)

\* C19 as stated: no thread is at the acquisition of a session lock, or
\* holds a session lock, while it holds the registry lock.
C19_RegistryThenSession ==
    \A q \in Procs :
        HoldsRegistry(q) => (~AtSessionLock(q) /\ ~HoldsSession(q))


\* ----------------------------------------------------------------------
\* Stream Fan-In properties (SpecFanIn, FairFanIn)
\* ----------------------------------------------------------------------
\* the item the producer is inside Send with
Held == IF ppc = "send" THEN <<Item(pending)>> ELSE <<>>

\* C12: a consumer that read to end-of-stream without closing early has
\* received exactly the fragments the source gave, f1..fN, in that order
C12_OrderedNoLoss ==
    sawEOF => received = Items(1, nFrag)

C12_Witness ==
    sawEOF /\ Len(received) = 3 /\ pulled = 2

\* C13: the queue never holds more than its capacity, a producer at a full
\* queue with an open consumer cannot complete Send, and while the consumer
\* is open every fragment the source gave is delivered, queued or in the
\* Send the producer is waiting in, in order
C13_BoundedNoDrop ==
    /\ Len(queue) <= QueueCap
    /\ (ppc = "send" /\ ~closedRecv /\ Len(queue) = QueueCap)
          => ~ENABLED ProducerSend
    /\ ~closedRecv => received \o queue \o Held = Items(1, nFrag)

C13_Witness ==
    ppc = "send" /\ ~closedRecv /\ Len(queue) = QueueCap /\ received # <<>>

\* C14: when ChatStream has returned the handle the producer has given its
\* start signal, and whenever the producer exists or an item is queued the
\* pipe has been created
C14_StartedBeforeReturn ==
    /\ cpc = "returned" => (ppc \notin {"none", "spawned"} /\ wg = 0)
    /\ (ppc # "none" \/ queue # <<>> \/ nFrag > 0) => cpc \notin {"query", "pipe"}

C14_Witness ==
    cpc = "returned" /\ ppc = "next" /\ pulled = 0

\* C15: after the consumer closed early the producer can always complete a
\* Send, and it goes on to exhaust the source and terminate
C15_DrainsAfterEarlyClose ==
    /\ [](closedRecv /\ ppc = "send" => ENABLED ProducerSend)
    /\ (closedRecv ~> (ppc = "done" /\ exhausted))

C15_Witness ==
    closedRecv /\ ppc = "done" /\ exhausted /\ nFrag > Len(received) + Len(queue)

\* C16: the producer eventually closes the output when the consumer keeps
\* reading; the output is closed at most once, only after the source is
\* exhausted, and nothing enters the queue after the close
C16_ClosedOnceAtExhaustion ==
    /\ []<>(closeCount = 1 \/ closedRecv)
    /\ [](closeCount <= 1)
    /\ [](closeCount = 1 => (exhausted /\ ppc = "done"))
    /\ [][closeCount = 1 => Len(queue') <= Len(queue)]_vars

C16_Witness ==
    closeCount = 1 /\ ~closedRecv /\ sawEOF /\ received # <<>>

\* C17: after an event that carried an error the output stays open until
\* the source is exhausted, and a consumer that read to end-of-stream has
\* received every fragment the source gave after the error, in order
C17_ErrorEventNotFatal ==
    /\ (errSeen /\ ~exhausted) => closeCount = 0
    /\ (ppc \in {"closing", "done"}) => exhausted
    /\ (sawEOF /\ errSeen) =>
          /\ afterErr \subseteq {received[k].chunk : k \in 1..Len(received)}
          /\ \A j, k \in 1..Len(received) :
                j < k => received[j].chunk < received[k].chunk

C17_Witness ==
    sawEOF /\ errSeen /\ afterErr # {} /\ Cardinality(afterErr) < Len(received)

\* everything the producer has sent or is sending
Sent == received \o queue \o Held

\* C39: no item the producer sends carries an error, so none the consumer
\* receives does; the step that takes an event with an error from the
\* source, and the step in which a MessageStream's Recv fails or ends,
\* put nothing into the output and do not close it
C39_NoErrorItem ==
    /\ [](\A k \in 1..Len(Sent) : ~Sent[k].err)
    /\ [][(errSeen' # errSeen) =>
            (queue' = queue /\ pending' = pending /\ closeCount' = closeCount)
         ]_vars
    /\ [][(ppc = "recv" /\ ppc' = "next") =>
            (queue' = queue /\ pending' = pending /\ closeCount' = closeCount)
         ]_vars

\* the source gave an event with an error and the consumer read two
\* messages and then the end of the stream
C39_Witness ==
    /\ sawEOF /\ errSeen /\ Len(received) = 2
    /\ \A k \in 1..Len(received) : ~received[k].err

\* ----------------------------------------------------------------------
\* History Compactor properties (SpecSum)
\* ----------------------------------------------------------------------
Called == sumPc = "done"

\* the counter gave one count per message
Counted == ~counterFails /\ Len(msgsToken) = Len(messages)

Total == SumTokens(msgsToken, 1, Len(msgsToken))

\* C20: a call on an empty list, or on a list whose per-message counts sum
\* to at most maxBefore, returns the input list and makes no Summarizer
\* call; a counted total above maxBefore makes the call
C20_ThresholdInclusive ==
    Called =>
      /\ (messages = <<>> \/ (Counted /\ Total <= maxBefore))
            => (returned = ReturnMessages /\ invocations = 0)
      /\ (messages # <<>> /\ Counted /\ Total > maxBefore) => invocations = 1

\* a total equal to the threshold
C20_Witness ==
    /\ Called /\ messages # <<>> /\ Counted
    /\ Total = maxBefore /\ maxBefore = DefaultMaxTokensBeforeSummary
    /\ returned = ReturnMessages /\ invocations = 0

\* C21: when the counter returned a list of another length than the
\* message list, the call returned an error and no list, splitMessages was
\* not called and the Summarizer was not invoked
C21_MismatchFails ==
    (Called /\ messages # <<>> /\ ~counterFails
       /\ Len(msgsToken) # Len(messages))
      => (returned = ReturnError /\ splits = 0 /\ invocations = 0
            /\ classified = NoBlocks /\ olderText = <<>>)

\* a longer list whose sum is above the threshold
C21_Witness ==
    /\ Called /\ ~counterFails /\ Len(msgsToken) > Len(messages)
    /\ Total > maxBefore /\ returned = ReturnError /\ invocations = 0

Classified == Called /\ splits = 1

NoNil == \A k \in 1..Len(messages) : messages[k] # Nil

IsRole(k, role) == messages[k] # Nil /\ messages[k].role = role

\* the positions a..b in order
Range(a, b) == [k \in 1..(b - a + 1) |-> a + k - 1]

\* 1 when the list starts with a System message
LeadingSystem == IF messages # <<>> /\ IsRole(1, "system") THEN 1 ELSE 0

\* the last position of the run of User messages after position s
LastInitialUser(s) ==
    CHOOSE u \in s..Len(messages) :
      /\ \A k \in (s + 1)..u : IsRole(k, "user")
      /\ u < Len(messages) => ~IsRole(u + 1, "user")

TaggedSummary(k) ==
    IsRole(k, "assistant") /\ summaryMessageFlag \in messages[k].extra

RECURSIVE Flatten(_, _)
\* the positions of blocks bs[k..], concatenated
Flatten(bs, k) ==
    IF k > Len(bs) THEN <<>> ELSE bs[k].msgs \o Flatten(bs, k + 1)

\* a ToolExchange block or a Singleton block
ToolExchangeOrSingleton(b) ==
    \/ Len(b.msgs) = 1
    \/ /\ Len(b.msgs) > 1
       /\ IsRole(b.msgs[1], "assistant")
       /\ Len(messages[b.msgs[1]].calls) > 0
       /\ \A k \in 2..Len(b.msgs) : IsRole(b.msgs[k], "tool")

Elems(seq) == {seq[k] : k \in 1..Len(seq)}

\* the token counts of a sequence of blocks
TokensOf(bs) == [k \in 1..Len(bs) |-> bs[k].tokens]

\* block k of the step-4 blocks is in the recent list
IsRecent(k) == classified.toolBlocks[k] \in Elems(walk.recentBlocks)

RECURSIVE NewerRecentTokens(_)
\* the tokens of the recent blocks newer than block k
NewerRecentTokens(k) ==
    IF k >= Len(classified.toolBlocks) THEN 0
    ELSE (IF IsRecent(k + 1) THEN classified.toolBlocks[k + 1].tokens ELSE 0)
         + NewerRecentTokens(k + 1)

\* C24: after the walk a step-4 block is recent exactly when the tokens of
\* the newer recent blocks plus its own do not exceed maxRecent; recent and
\* older are the step-4 blocks split in their original order; the recent
\* total is within the budget; counts [3,4,5] with budget 10 give recent
\* [4,5] and older [3]
C24_GreedyWalk ==
    Classified =>
      /\ \A k \in 1..Len(classified.toolBlocks) :
            IsRecent(k) <=>
              NewerRecentTokens(k) + classified.toolBlocks[k].tokens
                 <= maxRecent
      /\ walk.recentBlocks =
            SelectSeq(classified.toolBlocks,
                      LAMBDA b : b \in Elems(walk.recentBlocks))
      /\ walk.olderBlocks =
            SelectSeq(classified.toolBlocks,
                      LAMBDA b : b \notin Elems(walk.recentBlocks))
      /\ walk.recentTokens = SumTokens(TokensOf(walk.recentBlocks), 1,
                                       Len(walk.recentBlocks))
      /\ walk.recentTokens <= maxRecent
      /\ (TokensOf(classified.toolBlocks) = <<3, 4, 5>> /\ maxRecent = 10)
            => /\ TokensOf(walk.recentBlocks) = <<4, 5>>
               /\ TokensOf(walk.olderBlocks) = <<3>>

C24_Witness ==
    /\ Classified /\ maxRecent = 10
    /\ TokensOf(classified.toolBlocks) = <<3, 4, 5>>
    /\ TokensOf(walk.olderBlocks) = <<3>>

\* the positions of all blocks: System, InitialUser, PriorSummary, then the
\* step-4 blocks in order
AllPositions ==
    classified.systemBlock.msgs \o classified.userBlock.msgs
      \o classified.summaryBlock.msgs \o Flatten(classified.toolBlocks, 1)

RECURSIVE SumAt(_, _)
\* the sum of the counts at the positions idxs[k..]
SumAt(idxs, k) ==
    IF k > Len(idxs) THEN 0 ELSE msgsToken[idxs[k]] + SumAt(idxs, k + 1)

\* every block's token count is the sum of the counts of its messages
BlockTokensAdd ==
    /\ \A b \in {classified.systemBlock, classified.userBlock,
                  classified.summaryBlock} \cup Elems(classified.toolBlocks) :
          b.tokens = SumAt(b.msgs, 1)
    /\ classified.systemBlock.tokens + classified.userBlock.tokens
         + classified.summaryBlock.tokens
         + SumTokens(TokensOf(classified.toolBlocks), 1,
                     Len(classified.toolBlocks))
       = SumAt(AllPositions, 1)

\* the positions of the entries that are messages, in order
Present ==
    SelectSeq(Range(1, Len(messages)), LAMBDA k : messages[k] # Nil)

\* C31 as stated: for every classified list the blocks, concatenated in
\* order, are the whole list, each block's tokens are the sum of its
\* messages' counts and the block tokens sum to the list total
C31_PartitionEveryList ==
    Classified =>
      /\ AllPositions = Range(1, Len(messages))
      /\ BlockTokensAdd
      /\ SumAt(AllPositions, 1) = Total

\* C31 amended: the blocks, concatenated in order, are the entries of the
\* list that are messages (a nil entry is in no block and its count in no
\* block's tokens); for a list without nil entries that is the whole list
\* and the block tokens sum to the list total
C31_PartitionPresent ==
    Classified =>
      /\ AllPositions = Present
      /\ BlockTokensAdd
      /\ NoNil => /\ AllPositions = Range(1, Len(messages))
                  /\ SumAt(AllPositions, 1) = Total

\* a list without nil entries split into an InitialUser block and a
\* two-message ToolExchange block
C31_Witness ==
    /\ Classified /\ NoNil /\ Len(messages) = 3
    /\ classified.userBlock.msgs = <<1>>
    /\ Len(classified.toolBlocks) = 1
    /\ classified.toolBlocks[1].msgs = <<2, 3>>
    /\ classified.userBlock.tokens + classified.toolBlocks[1].tokens = Total

\* position k holds a Tool message an assistant with these call ids absorbs
Absorbable(k, ids) ==
    /\ k <= Len(messages)
    /\ IsRole(k, "tool")
    /\ (messages[k].callID = "" \/ messages[k].callID \in ids)

\* position k holds an Assistant message with at least one tool call
OpensExchange(k) == IsRole(k, "assistant") /\ Len(messages[k].calls) > 0

\* C32: a step-4 block that starts at an Assistant message with tool calls
\* is that message and the run of Tool messages right after it whose call
\* id is one of its call ids or empty, ending before the first entry that
\* is not such a Tool message; every other step-4 block is one message,
\* and the step-4 blocks hold, in order, every message after the first
\* three blocks
C32_ToolExchangeGrouping ==
    Classified =>
      LET bs == classified.toolBlocks
          head == classified.systemBlock.msgs \o classified.userBlock.msgs
                    \o classified.summaryBlock.msgs
      IN /\ \A n \in 1..Len(bs) :
              LET f == bs[n].msgs[1]
                  e == bs[n].msgs[Len(bs[n].msgs)]
              IN /\ bs[n].msgs = Range(f, e)
                 /\ IF OpensExchange(f)
                    THEN /\ \A k \in (f + 1)..e :
                              Absorbable(k, CallIDs(messages[f]))
                         /\ ~Absorbable(e + 1, CallIDs(messages[f]))
                    ELSE e = f
         /\ head \o Flatten(bs, 1) = Present

\* an assistant with call t1 absorbs a Tool message without id and stops
\* at the Tool message with id t2, which is a block of its own
C32_Witness ==
    /\ Classified /\ Len(messages) = 3
    /\ OpensExchange(1)
    /\ IsRole(2, "tool") /\ messages[2].callID = ""
    /\ IsRole(3, "tool") /\ messages[3].callID = "t2"
    /\ Len(classified.toolBlocks) = 2
    /\ classified.toolBlocks[1].msgs = <<1, 2>>
    /\ classified.toolBlocks[2].msgs = <<3>>

\* the Summarizer was invoked in the call
Invoked == Called /\ invocations = 1

RECURSIVE CallLines(_, _)
\* function name and arguments of the calls tcs[k..]
CallLines(tcs, k) ==
    IF k > Len(tcs) THEN <<>>
    ELSE <<"tool_call: ", tcs[k].name, "\n", "args: ", tcs[k].args, "\n">>
         \o CallLines(tcs, k + 1)

\* role tag, content and, for an Assistant message with tool calls, the
\* name and arguments of each call, followed by the separator
Rendering(k) ==
    LET m == messages[k]
    IN <<"[", m.role, "]\n">>
       \o (IF m.content = "" THEN <<>> ELSE <<m.content, "\n">>)
       \o (IF OpensExchange(k) THEN CallLines(m.calls, 1) ELSE <<>>)
       \o <<"\n">>

RECURSIVE Renderings(_, _)
\* the renderings of the messages at positions idxs[k..], in order
Renderings(idxs, k) ==
    IF k > Len(idxs) THEN <<>>
    ELSE Rendering(idxs[k]) \o Renderings(idxs, k + 1)

\* C33: the text given to the Summarizer is the renderings, oldest first,
\* of the messages of the older blocks; the older blocks are step-4 blocks
\* that are not recent, so no message of a recent block or of the System,
\* InitialUser or PriorSummary block is in it
C33_SummarizerTextIsOlder ==
    Invoked =>
      LET older == Flatten(walk.olderBlocks, 1)
      IN /\ olderText = Renderings(older, 1)
         /\ \A a, b \in 1..Len(older) : a < b => older[a] < older[b]
         /\ Elems(older) \cap
               (Elems(Flatten(walk.recentBlocks, 1))
                  \cup Elems(classified.systemBlock.msgs)
                  \cup Elems(classified.userBlock.msgs)
                  \cup Elems(classified.summaryBlock.msgs)) = {}
         /\ Elems(walk.olderBlocks) \cup Elems(walk.recentBlocks)
               = Elems(classified.toolBlocks)

\* a tool exchange is older and rendered, the newest message is recent
C33_Witness ==
    /\ Invoked /\ Len(messages) = 3
    /\ Flatten(walk.olderBlocks, 1) = <<1, 2>>
    /\ Flatten(walk.recentBlocks, 1) = <<3>>
    /\ olderText = <<"[", "assistant", "]\n",
                     "tool_call: ", "f", "\n", "args: ", "a", "\n", "\n",
                     "[", "tool", "]\n", "r", "\n", "\n">>

\* C38: a call invokes the Summarizer once when the list is not empty, the
\* counter returned one count per message and the counts sum to more than
\* maxBefore, and not at all otherwise; when the walk left no older block
\* the one invocation is made with the empty text
C38_InvokedExactlyOnce ==
    Called =>
      /\ invocations =
            IF messages # <<>> /\ Counted /\ Total > maxBefore THEN 1 ELSE 0
      /\ (invocations = 1 /\ walk.olderBlocks = <<>>) => olderText = <<>>

\* every step-4 block fits the recent budget and the Summarizer is invoked
C38_Witness ==
    /\ Called /\ invocations = 1
    /\ classified.toolBlocks # <<>>
    /\ walk.recentBlocks = classified.toolBlocks
    /\ walk.olderBlocks = <<>> /\ olderText = <<>>

\* C40: a call in which the counter or the Summarizer returned an error
\* returned an error and no list; a call that returned without error
\* returned the input list, and did so either without invoking the
\* Summarizer (empty list, or counted total not above maxBefore) or after
\* an invocation that succeeded
C40_ErrorsFailTheCall ==
    Called =>
      /\ (counterFails \/ summarizerFails) =>
            (returned.err /\ returned.msgs = <<>>)
      /\ returned.err => returned.msgs = <<>>
      /\ ~returned.err =>
            /\ returned.msgs = messages
            /\ \/ /\ invocations = 0
                  /\ messages = <<>> \/ (Counted /\ Total <= maxBefore)
               \/ invocations = 1 /\ ~summarizerFails

\* the Summarizer was given older messages and failed
C40_Witness ==
    /\ Called /\ messages # <<>> /\ Counted /\ Total > maxBefore
    /\ invocations = 1 /\ summarizerFails /\ olderText # <<>>
    /\ returned.err /\ returned.msgs = <<>>

\* ----------------------------------------------------------------------
\* Store properties (SpecStore)
\* ----------------------------------------------------------------------
\* the tool calls of a message as the spec's triples
CallTriples(m) ==
    [k \in 1..Len(m.calls.items) |->
        <<m.calls.items[k].id, m.calls.items[k].name, m.calls.items[k].args>>]

\* equal in role, content, tool calls and annotations
SameMessage(a, b) ==
    /\ a.ptr = b.ptr
    /\ a.role = b.role
    /\ a.content = b.content
    /\ CallTriples(a) = CallTriples(b)
    /\ a.extra.keys = b.extra.keys

\* equal in length and, position by position, in these fields
SameList(x, y) ==
    /\ Len(x) = Len(y)
    /\ \A k \in 1..Len(x) : SameMessage(x[k], y[k])

\* a Read returned without error in this step
ReadReturned ==
    /\ data' = data /\ lastWrite' = lastWrite
    /\ readRes' # readRes /\ ~readRes'.err

\* C25: a Read of an id that returns without error returns a list equal to
\* the list of the last Write to that id that returned without error, in
\* both stores, and the value held for an id changes only with such a
\* Write to that id
C25_RoundTrip ==
    [][/\ (ReadReturned /\ lastWrite[readRes'.id].has)
            => SameList(readRes'.msgs, lastWrite[readRes'.id].val)
       /\ \A i \in Ids :
            lastWrite'[i] = lastWrite[i]
              => data'[Key(storeKind, i)] = data[Key(storeKind, i)]]_vars

\* the encoded store returned an equal list that is not the same value, and
\* the other id holds another list
C25_Witness ==
    /\ storeKind = "redis"
    /\ readRes.id = "s1" /\ ~readRes.err /\ Len(readRes.msgs) = 2
    /\ lastWrite["s1"].has /\ lastWrite["s2"].has
    /\ lastWrite["s2"].val # lastWrite["s1"].val
    /\ SameList(readRes.msgs, lastWrite["s1"].val)
    /\ readRes.msgs # lastWrite["s1"].val

\* ----------------------------------------------------------------------
\* Session Registry and persistence properties (Spec)
\* ----------------------------------------------------------------------
\* GetOrCreateSession registered a new Session for id i in this step
Created(i) == sessions'[i] # 0 /\ sessions'[i] # sessions[i]

\* GetOrCreateSession(i) returned in this step
Returned(i) == got'[i] # {} /\ (got'[i] # got[i] \/ Created(i))

\* C26: every GetOrCreateSession returns the registered session of its id;
\* a session it creates has an empty history when Read found nothing or
\* returned an error, and the stored history when Read returned one
C26_GetOrCreateNeverFails ==
    [][\A i \in Ids :
         /\ Returned(i) => (sessions'[i] # 0 /\ sessions'[i] \in got'[i])
         /\ Created(i) =>
              /\ objs'[sessions'[i]].ID = i
              /\ objs'[sessions'[i]].Messages =
                    IF readErr'[i] \/ ~store[i].ok THEN <<>>
                    ELSE store[i].msgs]_vars

\* a session created empty although persistence holds a history: the Read
\* returned an error
C26_Witness ==
    /\ readErr["s1"] /\ sessions["s1"] # 0
    /\ store["s1"].ok /\ store["s1"].msgs # <<>>
    /\ objs[sessions["s1"]].Messages = <<>>

\* the call of thread p ran persistSession in this step
PersistStep(p) == Len(wrote'[p]) > Len(wrote[p])

\* C27: the persist step of a Chat or ChatStream call hands the in-memory
\* history to Write once; whether or not the Write succeeds, Chat returns
\* the reply it appended and ChatStream goes on to start the stream with
\* the history extended by the user turn, and a failed Write leaves the
\* store as it was; what ChatStream returns depends on the executor only
C27_WriteFailureNotSurfaced ==
    [][\A p \in Procs :
         /\ PersistStep(p) =>
              /\ Len(wrote'[p]) = 1
              /\ wrote'[p][1].msgs = objs'[sess[p]].Messages
              /\ ~wrote'[p][1].ok => store' = store
              /\ op[p] = "Chat" =>
                   /\ pc'[p] = "ret"
                   /\ result'[p] = Ok(Last(objs'[sess[p]].Messages))
                   /\ objs'[sess[p]].Messages =
                         Append(objs[sess[p]].Messages, result'[p].msg)
              /\ op[p] = "ChatStream" =>
                   /\ pc'[p] = "stream_exec"
                   /\ result'[p] = result[p]
                   /\ objs'[sess[p]].Messages =
                         AfterUser(objs[sess[p]].Messages, U(p))
         /\ (pc[p] = "stream_exec" /\ pc'[p] # "stream_exec") =>
              result'[p] = ChatStreamReturns(execErr'[p])]_vars

\* a Chat whose Write failed returned its reply
C27_Witness ==
    \E p \in Procs :
        /\ ChatOk(p)
        /\ Len(wrote[p]) = 1 /\ ~wrote[p][1].ok
        /\ result[p].msg.role = "assistant"
        /\ store[sid[p]].msgs # wrote[p][1].msgs

\* ClearSession removed the registered entry of id i in this step
ClearStep(i) == sessions[i] # 0 /\ sessions'[i] = 0

\* id i had a session and has none now
Cleared(i) == sessions[i] = 0 /\ \E o \in 1..Len(objs) : objs[o].ID = i

\* what ClearSession(i) leaves alone: the other entries, the Session
\* objects and the store
ClearFrame(i) ==
    /\ \A j \in Ids \ {i} : sessions'[j] = sessions[j]
    /\ objs' = objs
    /\ store' = store

\* C28 as stated: ClearSession(id) changes only the entry of id, and the
\* next GetOrCreateSession(id) creates a new session whose history is what
\* the store holds for id
C28_ClearThenReload ==
    [][\A i \in Ids :
         /\ ClearStep(i) => ClearFrame(i)
         /\ (Cleared(i) /\ Created(i)) =>
              /\ sessions'[i] = Len(objs) + 1
              /\ objs'[sessions'[i]].Messages = store[i].msgs]_vars

\* C28 amended: ClearSession(id) changes only the entry of id, and the next
\* GetOrCreateSession(id) creates a new session whose history is what the
\* store holds for id when its Read succeeds, and is empty when the Read
\* returns an error
C28_ClearThenReloadIfReadable ==
    [][\A i \in Ids :
         /\ ClearStep(i) => ClearFrame(i)
         /\ (Cleared(i) /\ Created(i)) =>
              /\ sessions'[i] = Len(objs) + 1
              /\ objs'[sessions'[i]].Messages =
                    IF readErr'[i] THEN <<>> ELSE store[i].msgs]_vars

\* a second session of s1, created after a ClearSession, holding the stored
\* history
C28_Witness ==
    /\ sessions["s1"] = Len(objs)
    /\ \E o \in 1..(Len(objs) - 1) : objs[o].ID = "s1"
    /\ ~readErr["s1"]
    /\ store["s1"].msgs # <<>>
    /\ objs[sessions["s1"]].Messages = store["s1"].msgs

\* ----------------------------------------------------------------------
\* Tool-result formatting properties (SpecFormat)
\* ----------------------------------------------------------------------
FormatDone == fmtPc = "done"

\* the middleware replaced the message at index k
Replaced(k) == stateMessages[k] # origMessages[k]

\* structured tool output with at least one non-empty text part
WellFormed(c) == c.shape = "mcp" /\ TextOf(c.parts, 1) # <<>>

\* C29 as stated: a replaced Tool message keeps the ToolCallID of the
\* message it replaces and its role stays Tool
C29_KeepsToolCallID ==
    FormatDone =>
      \A k \in 1..Len(stateMessages) :
        Replaced(k) =>
          /\ stateMessages[k].role = "tool"
          /\ stateMessages[k].callID = origMessages[k].callID

\* C30 as stated: the content of a Tool message that is not well-formed
\* structured output is exactly unchanged, and well-formed structured
\* output is replaced by the concatenation of its text parts
C30_UnchangedUnlessStructured ==
    FormatDone =>
      \A k \in 1..Len(stateMessages) :
        origMessages[k].role = "tool" =>
          IF WellFormed(origMessages[k].content)
          THEN stateMessages[k].content =
                  Content(FALSE, "text", TextOf(origMessages[k].content.parts, 1),
                          <<>>)
          ELSE stateMessages[k].content = origMessages[k].content

\* ----------------------------------------------------------------------
\* Session history properties (Spec)
\* ----------------------------------------------------------------------
\* a is a prefix of b
IsPrefix(a, b) == Len(a) <= Len(b) /\ SubSeq(b, 1, Len(a)) = a

\* b is a with a User message added and then cut to its first message and
\* its last 2*MaxHistory messages
CutByLimit(a, b) ==
    /\ maxHistory > 0
    /\ Len(a) + 1 > maxHistory * 2 + 1
    /\ Len(b) = maxHistory * 2 + 1
    /\ Last(b).role = "user"
    /\ LET h == Append(a, Last(b))
       IN b = <<h[1]>> \o SubSeq(h, Len(h) - maxHistory * 2 + 1, Len(h))

\* C34 as stated: in every step the history of every Session object before
\* the step is a prefix of its history after the step
C34_AppendOnly ==
    [][\A o \in DOMAIN objs : IsPrefix(Hist(o), Hist(o)')]_vars

\* C34 amended: the history before a step is a prefix of the history after
\* it, except that part_002 with a positive MaxHistory cuts a history
\* longer than 2*MaxHistory+1 to its first and its last 2*MaxHistory
\* messages when Chat or ChatStream adds the User message
C34_AppendOnlyUnlessLimit ==
    [][\A o \in DOMAIN objs :
          \/ IsPrefix(Hist(o), Hist(o)')
          \/ /\ impl = "react"
             /\ \E p \in Procs : /\ sess[p] = o
                                 /\ pc[p] \in {"chat_lock", "stream_lock"}
                                 /\ pc'[p] \in {"chat_exec", "stream_exec"}
             /\ CutByLimit(Hist(o), Hist(o)')]_vars

\* a history the limit has cut: the first User message is gone
C34_Witness ==
    \E o \in DOMAIN objs :
      /\ impl = "react" /\ maxHistory = 1
      /\ Len(Hist(o)) = 3
      /\ Hist(o)[1].role = "system"
      /\ Hist(o)[2].role = "assistant"
      /\ Hist(o)[3].role = "user"

\* the call of thread p that returned last is a GetSessionHistory
HistoryReturned(p) == pc[p] = "ret" /\ op[p] = "GetSessionHistory"

\* C35: the step in which GetSessionHistory copies is taken when no thread
\* holds the write lock of the Session object (so no Chat is between its
\* append of the User message and its return), returns the history of
\* that instant in an array of its own and changes no session; while the
\* caller keeps the result, steps that change session histories leave it
\* as it is; for an unknown id the call reports absence, returns no list
\* and registers nothing
C35_SnapshotUnderLock ==
    [][\A p \in Procs :
         /\ (pc[p] = "gsh_copy" /\ pc'[p] = "ret") =>
               /\ mu[sess[p]].w = NoProc
               /\ \A q \in Procs :
                     ~(pc[q] = "chat_exec" /\ sess[q] = sess[p])
               /\ result'[p].found
               /\ result'[p].list = Hist(sess[p])
               /\ result'[p].backing \notin DOMAIN objs
               /\ objs' = objs /\ sessions' = sessions
         /\ (HistoryReturned(p) /\ pc'[p] = "ret" /\ calls' = calls) =>
               result'[p] = result[p]
         /\ GetSessionHistoryLookup(p) =>
               /\ sessions[sid'[p]] = 0 =>
                     /\ pc'[p] = "ret"
                     /\ ~result'[p].found /\ result'[p].list = <<>>
               /\ sessions[sid'[p]] # 0 => pc'[p] = "gsh_copy"
               /\ objs' = objs /\ sessions' = sessions]_vars

\* a returned copy that a later append to the session has not changed
C35_Witness ==
    \E p \in Procs :
      /\ HistoryReturned(p) /\ result[p].found
      /\ result[p].list # <<>>
      /\ sessions[sid[p]] # 0
      /\ IsPrefix(result[p].list, Hist(sessions[sid[p]]))
      /\ Len(Hist(sessions[sid[p]])) > Len(result[p].list)

\* C36: every call that is under way returns, and the registry lock, which
\* calls take on entry, is free again after every state in which it is
\* held; so no set of calls waits on each other's locks forever
C36_EveryCallReturns ==
    /\ \A p \in Procs : InFlight(p) ~> ~InFlight(p)
    /\ (sessionMu # Free) ~> (sessionMu = Free)

\* GetSessionHistory holds the registry read lock and waits for the
\* session lock that a Chat holds across its executor call
C36_Witness ==
    \E p, q \in Procs :
      /\ pc[p] = "gsh_copy" /\ p \in sessionMu.r
      /\ pc[q] = "chat_exec" /\ mu[sess[p]].w = q

\* id i is registered and no call on it is under way
Quiet(i) ==
    sessions[i] # 0 /\ \A p \in Procs : InFlight(p) => sid[p] # i

\* C37 as stated: whenever an id is registered and no call on it is under
\* way, the history the store holds for it is a prefix of the history of
\* its registered session
C37_StoreIsPrefixOfMemory ==
    \A i \in Ids :
      Quiet(i) => IsPrefix(store[i].msgs, Hist(sessions[i]))

====
